---- MODULE Spec2Model ----
(***************************************************************************)
(* Type inference over ISLE rewrite rules (src/src/main.rs).               *)
(*                                                                         *)
(* The driver walks the rule list; for every selected rule it builds a     *)
(* RuleParseTree (type variables and constraints), hands the constraints   *)
(* to the SMT solver, renders the rule and emits a RuleSemantics record.   *)
(*                                                                         *)
(* Representation.  Rust enums are tuples whose first component is the     *)
(* variant name; structs are records with the source's field names; a     *)
(* HashMap is a function, a HashSet a set, a Vec a sequence.  A formatted  *)
(* identifier such as "iadd__3" is the tuple <<"iadd", 3>> of the values   *)
(* that were formatted into it.                                            *)
(***************************************************************************)
EXTENDS Integers, Sequences, FiniteSets, TLC

VARIABLES
    rules,            \* termenv.rules: the rule list handed to the driver
    types,            \* the TermSignature instantiation of the target term
    config,           \* Config: the target term and the optional rule names
    run,              \* "running" | "done" | "aborted" (a panic unwound main)
    panic,            \* which panic aborted the run ("" while none did)
    rule_idx,         \* position of the `for rule in &termenv.rules` loop
    solutions,        \* HashMap<RuleId, RuleSemantics> of the driver
    pc,               \* position inside type_annotations_using_rule
    tree,             \* the RuleParseTree of the rule being typed
    annotation_infos, \* Vec<AnnotationTypeInfo> of the rule being typed
    iflet_idx,        \* position of the `for iflet in &rule.iflets` loop
    nodes,            \* the TypeVarNodes built so far (if-lets, lhs, rhs)
    exprs,            \* lhs_expr / rhs_expr returned by add_rule_constraints
    smt,              \* the TypeSolver session: response and decoded solution
    hist              \* per rule: the outcome observed by the driver

vars == <<rules, types, config, run, panic, rule_idx, solutions, pc, tree,
          annotation_infos, iflet_idx, nodes, exprs, smt, hist>>

(***************************************************************************)
(* Program constants.                                                      *)
(***************************************************************************)
REG_WIDTH == 64
FLAGS_WIDTH == 4

(***************************************************************************)
(* Bounds of the model.                                                    *)
(***************************************************************************)
\* longest rule list the driver is run on
MaxRules == 2
\* the solver's integers range over the multiples of WidthUnit up to
\* MaxUnits * WidthUnit (and the few other numbers the inputs mention)
MaxUnits == 4

(***************************************************************************)
(* Generic helpers.                                                        *)
(***************************************************************************)
EmptyMap == <<>>

Put(f, k, v) == [y \in (DOMAIN f) \cup {k} |-> IF y = k THEN v ELSE f[y]]

Has(f, k) == k \in DOMAIN f

Range(s) == {s[i] : i \in DOMAIN s}

\* the element of a singleton set.  `The({e : x \in {v}})` is e with x bound
\* to the value of v: v is computed once, however often e mentions x
The(S) == CHOOSE x \in S : TRUE

RECURSIVE SumSeq(_)
SumSeq(s) == IF s = <<>> THEN 0 ELSE Head(s) + SumSeq(Tail(s))

(***************************************************************************)
(* annotation_ir::Type and veri_ir::Type.                                  *)
(***************************************************************************)
TyBitVector == <<"BitVector">>
TyBitVectorWithWidth(w) == <<"BitVectorWithWidth", w>>
TyInt == <<"Int">>
TyBool == <<"Bool">>
TyPoly(k) == <<"Poly", k>>
TyBitVectorUnknown == <<"BitVectorUnknown", 0>>

\* veri_ir::Type: BitVector(Option<usize>) | Int | Bool
VirBitVector(optw) == <<"BitVector", optw>>
VirInt == <<"Int">>
VirBool == <<"Bool">>
None == <<"None">>
Some(v) == <<"Some", v>>

annotation_type_for_vir_type(ty) ==
    CASE ty[1] = "BitVector" /\ ty[2] # None -> TyBitVectorWithWidth(ty[2][2])
      [] ty[1] = "BitVector" /\ ty[2] = None -> TyBitVector
      [] ty[1] = "Bool" -> TyBool
      [] ty[1] = "Int" -> TyInt

convert_type(aty) ==
    CASE aty[1] = "BitVectorUnknown" -> VirBitVector(None)
      [] aty[1] = "BitVector" -> VirBitVector(None)
      [] aty[1] = "BitVectorWithWidth" -> VirBitVector(Some(aty[2]))
      [] aty[1] = "Int" -> VirInt
      [] aty[1] = "Bool" -> VirBool
      [] aty[1] = "Poly" -> VirBitVector(None)

(***************************************************************************)
(* TypeExpr: the four constraint kinds.                                    *)
(***************************************************************************)
Concrete(v, ty) == <<"Concrete", v, ty>>
Variable(u, v) == <<"Variable", u, v>>
WidthInt(v, w) == <<"WidthInt", v, w>>
Symbolic(l, r) == <<"Symbolic", l, r>>

(***************************************************************************)
(* RuleParseTree and TypeVarNode.                                          *)
(***************************************************************************)
NewRuleParseTree ==
    [ varid_to_type_var_map |-> EmptyMap,
      type_var_to_val_map   |-> EmptyMap,
      next_type_var         |-> 1,
      concrete_constraints  |-> {},
      var_constraints       |-> {},
      bv_constraints        |-> {},
      ty_vars               |-> EmptyMap,
      quantified_vars       |-> EmptyMap,
      free_vars             |-> EmptyMap,
      assumptions           |-> <<>>,
      rhs_assertions        |-> <<>>,
      \* history: every (expression, type variable) pair ever passed to
      \* ty_vars.insert, and every type variable ever handed out
      registered            |-> {},
      allocated             |-> <<>> ]

TypeVarNode(ident, construct, type_var, children) ==
    [ ident |-> ident, construct |-> construct, type_var |-> type_var,
      children |-> children, assertions |-> <<>> ]

\* the result of a tree-building call: the node, the updated tree and the
\* panic that unwound the call ("" when it returned)
Built(node, t, p) == [node |-> node, tree |-> t, panic |-> p]

NoNode == TypeVarNode(<<"none">>, <<"None">>, 0, <<>>)

InsertConcrete(t, c) ==
    [t EXCEPT !.concrete_constraints = @ \cup {c}]

\* InsertVar, had the constraint not been kept
InsertVar_dropped(t, c) == t

InsertVar(t, c) ==
    [t EXCEPT !.var_constraints = @ \cup {c}]

InsertBv(t, c) ==
    [t EXCEPT !.bv_constraints = @ \cup {c}]

\* BumpTypeVar, had it handed the number out without the increment
BumpTypeVar_stuck(t) ==
    [t EXCEPT !.allocated = Append(@, t.next_type_var)]

\* `tree.next_type_var += 1` after `let t = tree.next_type_var`
BumpTypeVar(t) ==
    [t EXCEPT !.next_type_var = @ + 1,
              !.allocated = Append(@, t.next_type_var)]

\* a bare `tree.next_type_var += 1`: the number is skipped, not handed out
SkipTypeVar(t) ==
    [t EXCEPT !.next_type_var = @ + 1]

\* `tree.ty_vars.insert(e, tv)`: a later insert of an equal key replaces the value
InsertTyVar(t, e, tv) ==
    [t EXCEPT !.ty_vars = Put(@, e, tv),
              !.registered = @ \cup {<<e, tv>>}]

\* sema::Rule.vars[var_id.index()].name
VarName(rule, var_id) == rule.vars[var_id + 1]

\* the `match name.as_str()` of Pattern::ConstPrim; None stands for todo!()
PatternConstPrimVal(name) ==
    CASE name = "I64" -> Some(64)
      [] name = "I32" -> Some(32)
      [] name = "I16" -> Some(16)
      [] name = "I8" -> Some(8)
      [] name = "true" -> Some(1)
      [] name = "false" -> Some(0)
      [] name = "I128" -> Some(16)
      [] OTHER -> None

\* the `match name.as_str()` of Expr::ConstPrim; None stands for todo!()
ExprConstPrimVal(name) ==
    CASE name = "I8" -> Some(8)
      [] name = "I64" -> Some(64)
      [] name = "I32" -> Some(32)
      [] name = "false" -> Some(0)
      [] name = "true" -> Some(1)
      [] OTHER -> None

\* VarTypeVar, had or_insert been given the number before next_type_var
VarTypeVar_prev(t, var_id) ==
    IF Has(t.varid_to_type_var_map, var_id)
    THEN t.varid_to_type_var_map[var_id]
    ELSE t.next_type_var - 1

\* `entry(var_id).or_insert(next_type_var)` followed by the conditional bump
VarTypeVar(t, var_id) ==
    IF Has(t.varid_to_type_var_map, var_id)
    THEN t.varid_to_type_var_map[var_id]
    ELSE t.next_type_var

\* VarEntry, had the entry not been kept in varid_to_type_var_map
VarEntry_forget(t, var_id) ==
    IF VarTypeVar(t, var_id) = t.next_type_var THEN BumpTypeVar(t) ELSE t

VarEntry(t, var_id) ==
    LET tv == VarTypeVar(t, var_id)
        t1 == [t EXCEPT !.varid_to_type_var_map = Put(@, var_id, tv)]
    IN IF tv = t1.next_type_var THEN BumpTypeVar(t1) ELSE t1

RECURSIVE create_parse_tree_pattern(_, _, _, _, _)
RECURSIVE PatternChildren(_, _, _, _, _, _, _, _)

\* the `for (i, arg) in args.iter().enumerate()` loop of Pattern::Term and
\* the `for p in subpats` loop of Pattern::And (root = FALSE)
PatternChildren(rule, args, i, t, root, term, tsig, acc) ==
    IF i > Len(args) THEN [children |-> acc, tree |-> t, panic |-> ""]
    ELSE The({
        (IF b.panic # "" THEN [children |-> acc, tree |-> b.tree, panic |-> b.panic]
         ELSE IF root /\ i > Len(tsig.args)
         THEN [children |-> acc, tree |-> b.tree, panic |-> "index_out_of_bounds"]
         ELSE PatternChildren(rule, args, i + 1,
                  IF root
                  THEN InsertConcrete(b.tree,
                           Concrete(b.node.type_var,
                                    annotation_type_for_vir_type(tsig.args[i])))
                  ELSE b.tree,
                  root, term, tsig, Append(acc, b.node)))
        : b \in {create_parse_tree_pattern(rule, args[i], t, term, tsig)} })

RECURSIVE VariableToFirst(_, _, _)
\* `for e in &ty_vars[1..] { var_constraints.insert(Variable(first, e)) }`
VariableToFirst(t, first, rest) ==
    IF rest = <<>> THEN t
    ELSE VariableToFirst(InsertVar(t, Variable(first, Head(rest).type_var)),
                         first, Tail(rest))

create_parse_tree_pattern(rule, pattern, t, term, tsig) ==
    CASE pattern[1] = "Term" ->
            The({
                (LET name == pattern[2]
                     type_var == cs.tree.next_type_var
                     t1 == BumpTypeVar(cs.tree)
                 IN IF cs.panic # "" THEN Built(NoNode, cs.tree, cs.panic)
                    ELSE Built(TypeVarNode(<<name, type_var>>, <<"Term", name>>,
                                           type_var, cs.children),
                               IF name = term
                               THEN InsertConcrete(t1,
                                        Concrete(type_var,
                                                 annotation_type_for_vir_type(tsig.ret)))
                               ELSE t1,
                               ""))
                : cs \in {PatternChildren(rule, pattern[3], 1, t, pattern[2] = term,
                                          term, tsig, <<>>)} })
      [] pattern[1] = "Var" ->
            LET var_id == pattern[2]
                type_var == VarTypeVar(t, var_id)
            IN Built(TypeVarNode(<<VarName(rule, var_id), var_id, type_var>>,
                                 <<"Var">>, type_var, <<>>),
                     VarEntry(t, var_id), "")
      [] pattern[1] = "BindPattern" ->
            The({
                (LET var_id == pattern[2]
                     type_var == VarTypeVar(t, var_id)
                     ident == <<VarName(rule, var_id), var_id, type_var>>
                     var_node == TypeVarNode(ident, <<"Var">>, type_var, <<>>)
                     bind_type_var == sub.tree.next_type_var
                 IN IF sub.panic # "" THEN Built(NoNode, sub.tree, sub.panic)
                    ELSE Built(TypeVarNode(ident, <<"BindPattern">>, type_var,
                                           <<var_node, sub.node>>),
                               InsertVar(InsertVar(InsertVar(BumpTypeVar(sub.tree),
                                             Variable(type_var, sub.node.type_var)),
                                         Variable(bind_type_var, type_var)),
                                   Variable(bind_type_var, sub.node.type_var)),
                               ""))
                : sub \in {create_parse_tree_pattern(rule, pattern[3],
                                                     VarEntry(t, pattern[2]), term, tsig)} })
      [] pattern[1] = "Wildcard" ->
            LET type_var == t.next_type_var
            IN Built(TypeVarNode(<<"wildcard", type_var>>, <<"Wildcard", type_var>>,
                                 type_var, <<>>),
                     BumpTypeVar(t), "")
      [] pattern[1] = "ConstPrim" ->
            LET type_var == t.next_type_var
                val == PatternConstPrimVal(pattern[2])
            IN IF val = None THEN Built(NoNode, BumpTypeVar(t), "todo_const_prim")
               ELSE Built(TypeVarNode(<<pattern[2], type_var>>, <<"Const", val[2]>>,
                                      type_var, <<>>),
                          BumpTypeVar(t), "")
      [] pattern[1] = "ConstInt" ->
            LET type_var == t.next_type_var
            IN Built(TypeVarNode(<<"int", pattern[2], type_var>>, <<"Const", pattern[2]>>,
                                 type_var, <<>>),
                     BumpTypeVar(t), "")
      [] pattern[1] = "And" ->
            The({
                (LET type_var == cs.tree.next_type_var
                     t1 == BumpTypeVar(cs.tree)
                 IN IF cs.panic # "" THEN Built(NoNode, cs.tree, cs.panic)
                    ELSE IF cs.children = <<>>
                    THEN Built(NoNode, t1, "index_out_of_bounds")
                    ELSE Built(TypeVarNode(<<"and">>, <<"And">>, type_var, cs.children),
                               VariableToFirst(t1, cs.children[1].type_var,
                                               Tail(cs.children)),
                               ""))
                : cs \in {PatternChildren(rule, pattern[2], 1, t, FALSE, term, tsig,
                                          <<>>)} })


RECURSIVE create_parse_tree_expr(_, _, _)
RECURSIVE ExprChildren(_, _, _, _, _)
RECURSIVE LetBindings(_, _, _, _, _, _)

\* the `for arg in args` loop of Expr::Term
ExprChildren(rule, args, i, t, acc) ==
    IF i > Len(args) THEN [children |-> acc, tree |-> t, panic |-> ""]
    ELSE The({
        (IF b.panic # "" THEN [children |-> acc, tree |-> b.tree, panic |-> b.panic]
         ELSE ExprChildren(rule, args, i + 1, b.tree, Append(acc, b.node)))
        : b \in {create_parse_tree_expr(rule, args[i], t)} })

RECURSIVE LetBindings_unrecorded(_, _, _, _, _, _)
\* LetBindings, had the bound name's type variable not been recorded in
\* varid_to_type_var_map
LetBindings_unrecorded(rule, bindings, i, t, acc, bound) ==
    IF i > Len(bindings)
    THEN [children |-> acc, bound |-> bound, tree |-> t, panic |-> ""]
    ELSE The({
        (LET varid == bindings[i][1]
             ty_var == b.tree.next_type_var
             ident == <<VarName(rule, varid), varid, ty_var>>
             t1 == InsertVar(BumpTypeVar(b.tree), Variable(ty_var, b.node.type_var))
         IN IF b.panic # ""
            THEN [children |-> acc, bound |-> bound, tree |-> b.tree, panic |-> b.panic]
            ELSE LetBindings_unrecorded(rule, bindings, i + 1,
                     [t1 EXCEPT !.quantified_vars = Put(@, ident, ty_var)],
                     Append(acc, b.node), Append(bound, ident)))
        : b \in {create_parse_tree_expr(rule, bindings[i][2], t)} })

\* the `for (varid, _, expr) in bindings` loop of Expr::Let
LetBindings(rule, bindings, i, t, acc, bound) ==
    IF i > Len(bindings)
    THEN [children |-> acc, bound |-> bound, tree |-> t, panic |-> ""]
    ELSE The({
        (LET varid == bindings[i][1]
             ty_var == b.tree.next_type_var
             ident == <<VarName(rule, varid), varid, ty_var>>
             t1 == InsertVar(BumpTypeVar(b.tree), Variable(ty_var, b.node.type_var))
         IN IF b.panic # ""
            THEN [children |-> acc, bound |-> bound, tree |-> b.tree, panic |-> b.panic]
            ELSE LetBindings(rule, bindings, i + 1,
                     [t1 EXCEPT !.varid_to_type_var_map = Put(@, varid, ty_var),
                                !.quantified_vars = Put(@, ident, ty_var)],
                     Append(acc, b.node), Append(bound, ident)))
        : b \in {create_parse_tree_expr(rule, bindings[i][2], t)} })

create_parse_tree_expr(rule, expr, t) ==
    CASE expr[1] = "Term" ->
            The({
                (LET name == expr[2]
                     type_var == cs.tree.next_type_var
                 IN IF cs.panic # "" THEN Built(NoNode, cs.tree, cs.panic)
                    ELSE Built(TypeVarNode(<<name, type_var>>, <<"Term", name>>,
                                           type_var, cs.children),
                               BumpTypeVar(cs.tree), ""))
                : cs \in {ExprChildren(rule, expr[3], 1, t, <<>>)} })
      [] expr[1] = "Var" ->
            LET var_id == expr[2]
                name == IF var_id < Len(rule.vars) THEN VarName(rule, var_id) ELSE "v"
                type_var == VarTypeVar(t, var_id)
            IN Built(TypeVarNode(<<name, var_id, type_var>>, <<"Var">>, type_var, <<>>),
                     VarEntry(t, var_id), "")
      [] expr[1] = "ConstPrim" ->
            LET type_var == t.next_type_var
                val == ExprConstPrimVal(expr[2])
            IN IF val = None THEN Built(NoNode, BumpTypeVar(t), "todo_const_prim")
               ELSE Built(TypeVarNode(<<expr[2], type_var>>, <<"Const", val[2]>>,
                                      type_var, <<>>),
                          BumpTypeVar(t), "")
      [] expr[1] = "ConstInt" ->
            LET type_var == t.next_type_var
            IN Built(TypeVarNode(<<"int", expr[2], type_var>>, <<"Const", expr[2]>>,
                                 type_var, <<>>),
                     BumpTypeVar(t), "")
      [] expr[1] = "Let" ->
            The({
                (IF bs.panic # "" THEN Built(NoNode, bs.tree, bs.panic)
                 ELSE The({
                    (LET type_var == body.tree.next_type_var
                     IN IF body.panic # "" THEN Built(NoNode, body.tree, body.panic)
                        ELSE Built(TypeVarNode(<<"let", type_var>>, <<"Let", bs.bound>>,
                                               type_var,
                                               Append(bs.children, body.node)),
                                   InsertVar(BumpTypeVar(body.tree),
                                             Variable(type_var, body.node.type_var)),
                                   ""))
                    : body \in {create_parse_tree_expr(rule, expr[3], bs.tree)} }))
                : bs \in {LetBindings(rule, expr[2], 1, t, <<>>, <<>>)} })

const_fold_to_int(e) ==
    IF e[1] = "Const" THEN Some(e[2]) ELSE None


(***************************************************************************)
(* add_annotation_constraints: one annotation_ir::Expr to a veri_ir::Expr, *)
(* its type variable and the constraints of its operator.                  *)
(***************************************************************************)
\* AnnotationTypeInfo
AnnotationTypeInfo(term, var_to_type_var) ==
    [term |-> term, var_to_type_var |-> var_to_type_var]

\* what a call returns: (e, t), the updated tree and annotation_info, and the
\* panic that unwound it
Ann(e, tv, t, info, p) == [e |-> e, t |-> tv, tree |-> t, info |-> info, panic |-> p]

\* the trailing `tree.ty_vars.insert(e.clone(), t)`
AnnDone(e, tv, t, info) ==
    Ann(e, tv, InsertTyVar(t, e, tv), info, "")

CmpOps == {"Eq", "Lte", "Lt", "BVSgt", "BVSgte", "BVSlt", "BVSlte",
           "BVUgt", "BVUgte", "BVUlt", "BVUlte", "BVSaddo"}
BoolBinOps == {"Imp", "Or", "And"}
BVBinOps == {"BVMul", "BVUDiv", "BVSDiv", "BVAdd", "BVSub", "BVUrem", "BVSrem",
             "BVAnd", "BVOr", "BVXor"}
RotOps == {"BVRotl", "BVRotr"}
ShiftOps == {"BVShl", "BVShr", "BVAShr"}
BVUnOps == {"CLZ", "CLS", "Rev", "BVPopcnt"}
A64Ops == {"A64CLZ", "A64CLS", "A64Rev"}
ConstWidthOps == {"BVConvTo", "BVZeroExtTo", "BVSignExtTo"}
ExtVarWidthOps == {"BVSignExtToVarWidth", "BVZeroExtToVarWidth"}

\* annotation_ir::Width
WidthConst(x) == <<"Const", x>>
WidthRegWidth == <<"RegWidth">>
WidthValue(w) == IF w[1] = "Const" THEN w[2] ELSE REG_WIDTH

RECURSIVE add_annotation_constraints(_, _, _)
RECURSIVE ConcatOperands(_, _, _, _, _, _)
RECURSIVE SwitchCases(_, _, _, _, _, _, _)

\* the `for x in xs` loop of BVConcat
ConcatOperands(xs, i, t, info, sum_bvs, es) ==
    IF i > Len(xs)
    THEN [sum_bvs |-> sum_bvs, exprs |-> es, tree |-> t, info |-> info, panic |-> ""]
    ELSE The({
        (IF a.panic # ""
         THEN [sum_bvs |-> sum_bvs, exprs |-> es, tree |-> a.tree, info |-> a.info,
               panic |-> a.panic]
         ELSE ConcatOperands(xs, i + 1, InsertBv(a.tree, Concrete(a.t, TyBitVector)),
                             a.info, Append(sum_bvs, a.t), Append(es, a.e)))
        : a \in {add_annotation_constraints(xs[i], t, info)} })

\* the `for (m, b) in cases` loop of Switch
SwitchCases(cases, i, t, info, c_t, tv, es) ==
    IF i > Len(cases)
    THEN [exprs |-> es, tree |-> t, info |-> info, panic |-> ""]
    ELSE The({
        (IF m.panic # ""
         THEN [exprs |-> es, tree |-> m.tree, info |-> m.info, panic |-> m.panic]
         ELSE The({
            (IF b.panic # ""
             THEN [exprs |-> es, tree |-> b.tree, info |-> b.info, panic |-> b.panic]
             ELSE SwitchCases(cases, i + 1,
                      InsertVar(InsertVar(b.tree, Variable(c_t, m.t)),
                                Variable(tv, b.t)),
                      b.info, c_t, tv, Append(es, <<m.e, b.e>>)))
            : b \in {add_annotation_constraints(cases[i][2], m.tree, m.info)} }))
        : m \in {add_annotation_constraints(cases[i][1], t, info)} })

add_annotation_constraints(expr, t, info) ==
    CASE expr[1] = "Var" ->
            LET x == expr[2]
                known == Has(info.var_to_type_var, x)
                tv == IF known THEN info.var_to_type_var[x] ELSE t.next_type_var
                info1 == IF known THEN info
                         ELSE [info EXCEPT !.var_to_type_var = Put(@, x, tv)]
                t1 == IF known THEN t ELSE BumpTypeVar(t)
                name == <<info.term[1], info.term[2], x, tv>>
                t2 == [t1 EXCEPT !.quantified_vars = Put(@, name, tv),
                                 !.free_vars = Put(@, name, tv)]
            IN AnnDone(<<"Var", name>>, tv, t2, info1)
      [] expr[1] = "Const" ->
            LET c == expr[2]
                tv == t.next_type_var
                ty == IF c.ty = TyBitVector THEN TyBitVectorWithWidth(c.width) ELSE c.ty
                t1 == BumpTypeVar(InsertConcrete(t, Concrete(tv, ty)))
                t2 == [t1 EXCEPT !.type_var_to_val_map = Put(@, tv, c.value)]
            IN AnnDone(<<"Const", c.value, tv>>, tv, t2, info)
      [] expr[1] \in {"True", "False"} ->
            LET tv == t.next_type_var
                t1 == BumpTypeVar(InsertConcrete(t, Concrete(tv, TyBool)))
            IN AnnDone(<<expr[1]>>, tv, t1, info)
      [] expr[1] = "WidthOf" ->
            The({
                (IF x.panic # "" THEN x
                 ELSE LET tv == x.tree.next_type_var
                          t1 == BumpTypeVar(x.tree)
                          t2 == InsertBv(t1, Concrete(x.t, TyBitVector))
                          t3 == InsertConcrete(t2, Concrete(tv, TyInt))
                          t4 == InsertConcrete(t3, WidthInt(x.t, tv))
                      IN AnnDone(<<"WidthOf", x.e>>, tv, t4, x.info))
                : x \in {add_annotation_constraints(expr[2], t, info)} })
      [] expr[1] \in CmpOps ->
            The({
                (IF a.panic # "" THEN a
                 ELSE The({
                    (IF b.panic # "" THEN b
                     ELSE LET tv == b.tree.next_type_var
                              t1 == InsertConcrete(b.tree, Concrete(tv, TyBool))
                              t2 == InsertVar(t1, Variable(a.t, b.t))
                          IN AnnDone(<<"Binary", expr[1], a.e, b.e>>, tv, BumpTypeVar(t2), b.info))
                    : b \in {add_annotation_constraints(expr[3], a.tree, a.info)} }))
                : a \in {add_annotation_constraints(expr[2], t, info)} })
      [] expr[1] \in BoolBinOps ->
            The({
                (IF a.panic # "" THEN a
                 ELSE The({
                    (IF b.panic # "" THEN b
                     ELSE LET tv == b.tree.next_type_var
                              t1 == InsertConcrete(b.tree, Concrete(a.t, TyBool))
                              t2 == InsertConcrete(t1, Concrete(b.t, TyBool))
                              t3 == InsertConcrete(t2, Concrete(tv, TyBool))
                          IN AnnDone(<<"Binary", expr[1], a.e, b.e>>, tv, BumpTypeVar(t3), b.info))
                    : b \in {add_annotation_constraints(expr[3], a.tree, a.info)} }))
                : a \in {add_annotation_constraints(expr[2], t, info)} })
      [] expr[1] = "Not" ->
            The({
                (IF a.panic # "" THEN a
                 ELSE LET tv == a.tree.next_type_var
                          t1 == InsertConcrete(a.tree, Concrete(a.t, TyBool))
                          t2 == InsertConcrete(t1, Concrete(tv, TyBool))
                      IN AnnDone(<<"Unary", "Not", a.e>>, tv, BumpTypeVar(t2), a.info))
                : a \in {add_annotation_constraints(expr[2], t, info)} })
      [] expr[1] = "BVNeg" ->
            The({
                (IF a.panic # "" THEN a
                 ELSE LET tv == a.tree.next_type_var
                          t1 == InsertBv(a.tree, Concrete(tv, TyBitVector))
                          t2 == InsertBv(t1, Concrete(a.t, TyBitVector))
                          t3 == InsertVar(t2, Variable(tv, a.t))
                      IN AnnDone(<<"Unary", "BVNeg", a.e>>, tv, BumpTypeVar(t3), a.info))
                : a \in {add_annotation_constraints(expr[2], t, info)} })
      [] expr[1] = "BVNot" ->
            The({
                (IF a.panic # "" THEN a
                 ELSE LET tv == a.tree.next_type_var
                          t1 == InsertVar(a.tree, Variable(tv, a.t))
                      IN AnnDone(<<"Unary", "BVNot", a.e>>, tv, BumpTypeVar(t1), a.info))
                : a \in {add_annotation_constraints(expr[2], t, info)} })
      [] expr[1] \in BVBinOps ->
            The({
                (IF a.panic # "" THEN a
                 ELSE The({
                    (IF b.panic # "" THEN b
                     ELSE LET tv == b.tree.next_type_var
                              t1 == InsertBv(b.tree, Concrete(tv, TyBitVector))
                              t2 == InsertBv(t1, Concrete(a.t, TyBitVector))
                              t3 == InsertBv(t2, Concrete(b.t, TyBitVector))
                              t4 == InsertVar(t3, Variable(a.t, b.t))
                              t5 == InsertVar(t4, Variable(tv, a.t))
                              t6 == InsertVar(t5, Variable(tv, b.t))
                          IN AnnDone(<<"Binary", expr[1], a.e, b.e>>, tv, BumpTypeVar(t6), b.info))
                    : b \in {add_annotation_constraints(expr[3], a.tree, a.info)} }))
                : a \in {add_annotation_constraints(expr[2], t, info)} })
      [] expr[1] \in RotOps \cup ShiftOps ->
            The({
                (IF x.panic # "" THEN x
                 ELSE The({
                    (IF a.panic # "" THEN a
                     ELSE LET tv == a.tree.next_type_var
                              t1 == BumpTypeVar(a.tree)
                              t2 == InsertBv(t1, Concrete(x.t, TyBitVector))
                              t3 == InsertBv(t2, Concrete(a.t, TyBitVector))
                              t4 == InsertVar(t3, Variable(tv, x.t))
                          IN AnnDone(<<"Binary", expr[1], x.e, a.e>>, tv,
                                     CASE expr[1] \in {"BVShl", "BVShr"} ->
                                              InsertVar(t4, Variable(x.t, a.t))
                                       [] expr[1] = "BVAShr" -> InsertVar(t4, Variable(a.t, x.t))
                                       [] OTHER -> t4,
                                     a.info))
                    : a \in {add_annotation_constraints(expr[3], x.tree, x.info)} }))
                : x \in {add_annotation_constraints(expr[2], t, info)} })
      [] expr[1] \in ConstWidthOps ->
            The({
                (IF a.panic # "" THEN a
                 ELSE LET tv == a.tree.next_type_var
                          width == WidthValue(expr[2])
                          t1 == BumpTypeVar(a.tree)
                          t2 == InsertConcrete(t1, Concrete(tv, TyBitVectorWithWidth(width)))
                          t3 == InsertBv(t2, Concrete(a.t, TyBitVector))
                      IN AnnDone(IF expr[1] = "BVConvTo" THEN <<"BVConvTo", a.e>>
                                 ELSE <<expr[1], width, a.e>>,
                                 tv, t3, a.info))
                : a \in {add_annotation_constraints(expr[3], t, info)} })
      [] expr[1] = "BVConvToVarWidth" ->
            The({
                (IF w.panic # "" THEN w
                 ELSE The({
                    (IF a.panic # "" THEN a
                     ELSE LET tv == a.tree.next_type_var
                              t1 == BumpTypeVar(a.tree)
                              t2 == InsertConcrete(t1, Concrete(w.t, TyInt))
                              folded == const_fold_to_int(w.e)
                          IN IF folded # None
                             THEN IF folded[2] < 0
                                  THEN Ann(a.e, tv, t2, a.info, "try_into_usize")
                                  ELSE AnnDone(<<"BVConvTo", a.e>>, tv,
                                           InsertBv(InsertConcrete(t2,
                                                       Concrete(tv, TyBitVectorWithWidth(folded[2]))),
                                                    Concrete(a.t, TyBitVector)),
                                           a.info)
                             ELSE AnnDone(<<"BVConvToVarWidth", w.e, a.e>>, tv,
                                      InsertBv(InsertBv(InsertConcrete(t2, WidthInt(tv, w.t)),
                                                        Concrete(a.t, TyBitVector)),
                                               Concrete(tv, TyBitVector)),
                                      a.info))
                    : a \in {add_annotation_constraints(expr[3], w.tree, w.info)} }))
                : w \in {add_annotation_constraints(expr[2], t, info)} })
      [] expr[1] \in ExtVarWidthOps ->
            The({
                (IF w.panic # "" THEN w
                 ELSE The({
                    (IF a.panic # "" THEN a
                     ELSE LET tv == a.tree.next_type_var
                              t1 == BumpTypeVar(a.tree)
                              t2 == InsertConcrete(t1, Concrete(w.t, TyInt))
                              t3 == InsertBv(t2, Concrete(a.t, TyBitVector))
                              t4 == InsertBv(t3, Concrete(tv, TyBitVector))
                          IN AnnDone(<<expr[1], w.e, a.e>>, tv, t4, a.info))
                    : a \in {add_annotation_constraints(expr[3], w.tree, w.info)} }))
                : w \in {add_annotation_constraints(expr[2], t, info)} })
      [] expr[1] = "BVExtract" ->
            The({
                (IF a.panic # "" THEN a
                 ELSE LET l == expr[2]
                          r == expr[3]
                          tv == a.tree.next_type_var
                          t1 == InsertBv(a.tree, Concrete(a.t, TyBitVector))
                          t2 == InsertConcrete(t1, Concrete(tv, TyBitVectorWithWidth(l - r + 1)))
                      IN IF l - r + 1 < 0 THEN Ann(a.e, tv, t1, a.info, "usize_overflow")
                         ELSE AnnDone(<<"BVExtract", l, r, a.e>>, tv, BumpTypeVar(t2), a.info))
                : a \in {add_annotation_constraints(expr[4], t, info)} })
      [] expr[1] = "BVConcat" ->
            The({
                (LET tv == t.next_type_var
                     t1 == InsertBv(ops.tree, Concrete(tv, TyBitVector))
                     t2 == InsertConcrete(t1, Symbolic(ops.sum_bvs, <<tv>>))
                 IN IF ops.panic # ""
                    THEN Ann(<<"BVConcat", ops.exprs>>, tv, ops.tree, ops.info, ops.panic)
                    ELSE AnnDone(<<"BVConcat", ops.exprs>>, tv, SkipTypeVar(t2), ops.info))
                : ops \in {ConcatOperands(expr[2], 1, BumpTypeVar(t), info, <<>>, <<>>)} })
      [] expr[1] = "BVIntToBv" ->
            The({
                (IF a.panic # "" THEN a
                 ELSE LET tv == a.tree.next_type_var
                          t1 == BumpTypeVar(a.tree)
                          t2 == InsertConcrete(t1, Concrete(a.t, TyInt))
                          t3 == InsertConcrete(t2, Concrete(tv, TyBitVectorWithWidth(expr[2])))
                      IN AnnDone(<<"BVIntToBV", expr[2], a.e>>, tv, t3, a.info))
                : a \in {add_annotation_constraints(expr[3], t, info)} })
      [] expr[1] = "BVToInt" ->
            The({
                (IF a.panic # "" THEN a
                 ELSE LET tv == a.tree.next_type_var
                          t1 == BumpTypeVar(a.tree)
                          t2 == InsertBv(t1, Concrete(a.t, TyBitVector))
                          t3 == InsertConcrete(t2, Concrete(tv, TyInt))
                      IN AnnDone(<<"BVToInt", a.e>>, tv, t3, a.info))
                : a \in {add_annotation_constraints(expr[2], t, info)} })
      [] expr[1] = "Conditional" ->
            The({
                (IF c.panic # "" THEN c
                 ELSE The({
                    (IF a.panic # "" THEN a
                     ELSE The({
                        (IF b.panic # "" THEN b
                         ELSE LET tv == b.tree.next_type_var
                                  t1 == InsertConcrete(b.tree, Concrete(c.t, TyBool))
                                  t2 == InsertVar(t1, Variable(a.t, b.t))
                                  t3 == InsertVar(t2, Variable(tv, a.t))
                              IN AnnDone(<<"Conditional", c.e, a.e, b.e>>, tv, BumpTypeVar(t3), b.info))
                        : b \in {add_annotation_constraints(expr[4], a.tree, a.info)} }))
                    : a \in {add_annotation_constraints(expr[3], c.tree, c.info)} }))
                : c \in {add_annotation_constraints(expr[2], t, info)} })
      [] expr[1] = "Switch" ->
            The({
                (IF c.panic # "" THEN c
                 ELSE
                    The({
                        (IF cs.panic # ""
                         THEN Ann(c.e, c.tree.next_type_var, cs.tree, cs.info, cs.panic)
                         ELSE AnnDone(<<"Switch", c.e, cs.exprs>>, c.tree.next_type_var,
                                      cs.tree, cs.info))
                        : cs \in {SwitchCases(expr[3], 1, BumpTypeVar(c.tree), c.info, c.t,
                                              c.tree.next_type_var, <<>>)} }))
                : c \in {add_annotation_constraints(expr[2], t, info)} })
      [] expr[1] \in BVUnOps ->
            The({
                (IF a.panic # "" THEN a
                 ELSE LET tv == a.tree.next_type_var
                          t1 == InsertBv(a.tree, Concrete(tv, TyBitVector))
                          t2 == InsertBv(t1, Concrete(a.t, TyBitVector))
                          t3 == InsertVar(t2, Variable(tv, a.t))
                      IN AnnDone(<<expr[1], a.e>>, tv, BumpTypeVar(t3), a.info))
                : a \in {add_annotation_constraints(expr[2], t, info)} })
      [] expr[1] \in A64Ops ->
            The({
                (IF ty.panic # "" THEN ty
                 ELSE The({
                    (IF a.panic # "" THEN a
                     ELSE LET tv == a.tree.next_type_var
                              t1 == InsertConcrete(a.tree, Concrete(tv, TyBitVectorWithWidth(REG_WIDTH)))
                              t2 == InsertConcrete(t1, Concrete(ty.t, TyInt))
                              t3 == InsertBv(t2, Concrete(a.t, TyBitVector))
                          IN AnnDone(<<expr[1], ty.e, a.e>>, tv, BumpTypeVar(t3), a.info))
                    : a \in {add_annotation_constraints(expr[3], ty.tree, ty.info)} }))
                : ty \in {add_annotation_constraints(expr[2], t, info)} })
      [] expr[1] = "BVSubs" ->
            The({
                (IF ty.panic # "" THEN ty
                 ELSE The({
                    (IF a.panic # "" THEN a
                     ELSE The({
                        (IF b.panic # "" THEN b
                         ELSE LET tv == b.tree.next_type_var
                                  t1 == InsertConcrete(b.tree,
                                            Concrete(tv, TyBitVectorWithWidth(REG_WIDTH + FLAGS_WIDTH)))
                                  t2 == InsertConcrete(t1, Concrete(ty.t, TyInt))
                                  t3 == InsertBv(t2, Concrete(a.t, TyBitVector))
                                  t4 == InsertBv(t3, Concrete(b.t, TyBitVector))
                                  t5 == InsertVar(t4, Variable(a.t, b.t))
                              IN AnnDone(<<"BVSubs", ty.e, a.e, b.e>>, tv, BumpTypeVar(t5), b.info))
                        : b \in {add_annotation_constraints(expr[4], a.tree, a.info)} }))
                    : a \in {add_annotation_constraints(expr[3], ty.tree, ty.info)} }))
                : ty \in {add_annotation_constraints(expr[2], t, info)} })


(***************************************************************************)
(* The environment the driver is handed: TermEnv, the model of the isle    *)
(* types and the annotations of the terms.                                 *)
(***************************************************************************)
\* annotation_ir::Const
Const(ty, value, width) == [ty |-> ty, value |-> value, width |-> width]

\* annotation_ir::TermSignature of an annotation: the argument names, then ret
Sig(args, ret) == [args |-> [i \in DOMAIN args |-> [name |-> args[i]]],
                   ret |-> [name |-> ret]]

\* annotation_ir::TermAnnotation
TermAnnotation(sig, assumptions, assertions) ==
    [sig |-> sig, assumptions |-> assumptions, assertions |-> assertions]

\* termenv.terms: the declared isle argument and return types of every term
termenv_terms ==
    [ lower    |-> [arg_tys |-> <<"Inst">>, ret_ty |-> "InstOutput"],
      output   |-> [arg_tys |-> <<"Inst">>, ret_ty |-> "InstOutput"],
      iadd     |-> [arg_tys |-> <<"Value", "Value">>, ret_ty |-> "Inst"],
      add      |-> [arg_tys |-> <<"Value", "Value">>, ret_ty |-> "InstOutput"],
      has_type |-> [arg_tys |-> <<"Type", "Inst">>, ret_ty |-> "Inst"],
      concat   |-> [arg_tys |-> <<"B16", "B48">>, ret_ty |-> "Inst"],
      concat32 |-> [arg_tys |-> <<"B16", "B32">>, ret_ty |-> "Inst"],
      zero     |-> [arg_tys |-> <<>>, ret_ty |-> "InstOutput"],
      mystery  |-> [arg_tys |-> <<"Value">>, ret_ty |-> "Inst"],
      zext     |-> [arg_tys |-> <<"B16", "Value">>, ret_ty |-> "Inst"],
      sext     |-> [arg_tys |-> <<"B16", "Value">>, ret_ty |-> "Inst"],
      conv     |-> [arg_tys |-> <<"B16", "Value">>, ret_ty |-> "Inst"],
      conv32   |-> [arg_tys |-> <<"Value">>, ret_ty |-> "Inst"],
      convw    |-> [arg_tys |-> <<"Type", "Value">>, ret_ty |-> "Inst"],
      subs     |-> [arg_tys |-> <<"Type", "Value", "Value">>, ret_ty |-> "Inst"],
      generic  |-> [arg_tys |-> <<"T">>, ret_ty |-> "Inst"],
      bare     |-> [arg_tys |-> <<"Value">>, ret_ty |-> "Inst"],
      pick     |-> [arg_tys |-> <<"Type", "Flag", "Value">>, ret_ty |-> "Inst"] ]

\* annotation_env.model_map: the annotation type that models an isle type
model_map ==
    [ Inst       |-> TyBitVector,
      InstOutput |-> TyBitVector,
      Value      |-> TyBitVector,
      Type       |-> TyInt,
      B16        |-> TyBitVectorWithWidth(16),
      B32        |-> TyBitVectorWithWidth(32),
      B48        |-> TyBitVectorWithWidth(48),
      T          |-> TyPoly(0),
      Flag       |-> TyBool ]

\* annotation_env.annotation_map: `mystery` has no annotation
annotation_map ==
    [ lower    |-> TermAnnotation(Sig(<<"arg">>, "result"), <<>>,
                      << <<"Eq", <<"Var", "result">>, <<"Var", "arg">> >> >>),
      output   |-> TermAnnotation(Sig(<<"arg">>, "result"), <<>>,
                      << <<"Eq", <<"Var", "result">>, <<"Var", "arg">> >> >>),
      iadd     |-> TermAnnotation(Sig(<<"x", "y">>, "result"), <<>>,
                      << <<"Eq", <<"Var", "result">>,
                                 <<"BVAdd", <<"Var", "x">>, <<"Var", "y">> >> >> >>),
      add      |-> TermAnnotation(Sig(<<"x", "y">>, "result"), <<>>,
                      << <<"Eq", <<"Var", "result">>,
                                 <<"BVAdd", <<"Var", "x">>, <<"Var", "y">> >> >> >>),
      has_type |-> TermAnnotation(Sig(<<"ty", "arg">>, "result"),
                      << <<"Eq", <<"Var", "ty">>, <<"WidthOf", <<"Var", "arg">> >> >> >>,
                      << <<"Eq", <<"Var", "result">>, <<"Var", "arg">> >> >>),
      concat   |-> TermAnnotation(Sig(<<"x", "y">>, "result"), <<>>,
                      << <<"Eq", <<"Var", "result">>,
                                 <<"BVConcat", << <<"Var", "x">>, <<"Var", "y">> >> >> >> >>),
      concat32 |-> TermAnnotation(Sig(<<"x", "y">>, "result"), <<>>,
                      << <<"Eq", <<"Var", "result">>,
                                 <<"BVConcat", << <<"Var", "x">>, <<"Var", "y">> >> >> >> >>),
      zero     |-> TermAnnotation(Sig(<<>>, "result"), <<>>,
                      << <<"Eq", <<"Var", "result">>,
                                 <<"Const", Const(TyBitVector, 0, REG_WIDTH)>> >> >>),
      zext     |-> TermAnnotation(Sig(<<"x", "y">>, "result"), <<>>,
                      << <<"Eq", <<"Var", "result">>,
                                 <<"BVZeroExtToVarWidth", <<"WidthOf", <<"Var", "x">> >>,
                                                          <<"Var", "y">> >> >> >>),
      sext     |-> TermAnnotation(Sig(<<"x", "y">>, "result"), <<>>,
                      << <<"Eq", <<"Var", "result">>,
                                 <<"BVSignExtToVarWidth", <<"WidthOf", <<"Var", "x">> >>,
                                                          <<"Var", "y">> >> >> >>),
      conv     |-> TermAnnotation(Sig(<<"x", "y">>, "result"), <<>>,
                      << <<"Eq", <<"Var", "result">>,
                                 <<"BVConvToVarWidth", <<"WidthOf", <<"Var", "x">> >>,
                                                       <<"Var", "y">> >> >> >>),
      conv32   |-> TermAnnotation(Sig(<<"y">>, "result"), <<>>,
                      << <<"Eq", <<"Var", "result">>,
                                 <<"BVConvToVarWidth", <<"Const", Const(TyInt, 32, 0)>>,
                                                       <<"Var", "y">> >> >> >>),
      convw    |-> TermAnnotation(Sig(<<"w", "y">>, "result"), <<>>,
                      << <<"Eq", <<"Var", "result">>,
                                 <<"BVConvToVarWidth", <<"Var", "w">>,
                                                       <<"Var", "y">> >> >> >>),
      subs     |-> TermAnnotation(Sig(<<"ty", "x", "y">>, "result"), <<>>,
                      << <<"Eq", <<"Var", "result">>,
                                 <<"BVSubs", <<"Var", "ty">>, <<"Var", "x">>,
                                             <<"Var", "y">> >> >> >>),
      generic  |-> TermAnnotation(Sig(<<"arg">>, "result"), <<>>,
                      << <<"Eq", <<"Var", "result">>, <<"Var", "arg">> >> >>),
      bare     |-> TermAnnotation(Sig(<<"arg">>, "result"), <<>>, <<>>),
      pick     |-> TermAnnotation(Sig(<<"ty", "b", "arg">>, "result"),
                      << <<"Eq", <<"Var", "ty">>, <<"Const", Const(TyInt, 32, 0)>> >> >>,
                      << <<"Eq", <<"Var", "result">>, <<"Var", "arg">> >> >>) ]

\* AnnotationEnv::get_annotation_for_term
get_annotation_for_term(name) ==
    IF Has(annotation_map, name) THEN Some(annotation_map[name]) ELSE None

(***************************************************************************)
(* add_isle_constraints: bind the signature names of an annotation to the  *)
(* models of the term's isle types.                                        *)
(***************************************************************************)
RECURSIVE IsleBindings_unallocated(_, _, _, _, _)
\* IsleBindings, had next_type_var not been advanced for a signature name
\* the annotation's expressions do not mention
IsleBindings_unallocated(isle_types, annotation_vars, i, t, info) ==
    IF i > Len(isle_types) \/ i > Len(annotation_vars)
    THEN [tree |-> t, info |-> info, panic |-> ""]
    ELSE The({
        (LET type_var == b.info.var_to_type_var[annotation_vars[i]]
             ty == model_map[isle_types[i]]
         IN IsleBindings_unallocated(isle_types, annotation_vars, i + 1,
                IF ~Has(model_map, isle_types[i]) THEN b.tree
                ELSE IF ty = TyBitVector
                THEN InsertBv(b.tree, Concrete(type_var, ty))
                ELSE InsertConcrete(b.tree, Concrete(type_var, ty)),
                b.info))
        : b \in {IF Has(info.var_to_type_var, annotation_vars[i])
                 THEN [tree |-> t, info |-> info]
                 ELSE [tree |-> t,
                       info |-> [info EXCEPT !.var_to_type_var =
                                    Put(@, annotation_vars[i], t.next_type_var)]]} })

RECURSIVE IsleBindings(_, _, _, _, _)
\* the `for (isle_type_id, annotation_var) in isle_types.iter().zip(..)` loop
IsleBindings(isle_types, annotation_vars, i, t, info) ==
    IF i > Len(isle_types) \/ i > Len(annotation_vars)
    THEN [tree |-> t, info |-> info, panic |-> ""]
    ELSE The({
        (LET type_var == b.info.var_to_type_var[annotation_vars[i]]
             ty == model_map[isle_types[i]]
         IN IsleBindings(isle_types, annotation_vars, i + 1,
                IF ~Has(model_map, isle_types[i]) THEN b.tree
                ELSE IF ty = TyBitVector
                THEN InsertBv(b.tree, Concrete(type_var, ty))
                ELSE InsertConcrete(b.tree, Concrete(type_var, ty)),
                b.info))
        : b \in {IF Has(info.var_to_type_var, annotation_vars[i])
                 THEN [tree |-> t, info |-> info]
                 ELSE [tree |-> BumpTypeVar(t),
                       info |-> [info EXCEPT !.var_to_type_var =
                                    Put(@, annotation_vars[i], t.next_type_var)]]} })

add_isle_constraints(term, t, info, sig) ==
    LET annotation_vars == [i \in 1..(Len(sig.args) + 1) |->
                               IF i <= Len(sig.args) THEN sig.args[i].name
                               ELSE sig.ret.name]
        isle_types == Append(term.arg_tys, term.ret_ty)
    IN IF Len(annotation_vars) # Len(isle_types)
       THEN [tree |-> t, info |-> info, panic |-> "assert_eq_signature_len"]
       ELSE IsleBindings(isle_types, annotation_vars, 1, t, info)


(***************************************************************************)
(* add_rule_constraints: walk a parse tree bottom-up, relate every term    *)
(* node to its annotation and return the node's veri_ir expression.        *)
(***************************************************************************)
Eq(a, b) == <<"Binary", "Eq", a, b>>
TerminalVar(name) == <<"Var", name>>

\* what a call returns: Option<veri_ir::Expr>, the updated tree and
\* annotation_infos, and the panic that unwound it
Constrained(e, t, infos, p) == [e |-> e, tree |-> t, infos |-> infos, panic |-> p]

PushAssumption(t, e) == [t EXCEPT !.assumptions = Append(@, e)]
\* PushRhsAssertion, had the side of the rule been ignored
PushRhsAssertion_assumed(t, e) == [t EXCEPT !.assumptions = Append(@, e)]
PushRhsAssertion(t, e) == [t EXCEPT !.rhs_assertions = Append(@, e)]
InsertQuantified(t, name, tv) == [t EXCEPT !.quantified_vars = Put(@, name, tv)]
InsertFree(t, name, tv) == [t EXCEPT !.free_vars = Put(@, name, tv)]

\* "term__name__tv": the name of an annotation variable of one term use
AnnotationVarName(info, name) ==
    <<info.term[1], info.term[2], name, info.var_to_type_var[name]>>

RECURSIVE AnnotationExprs(_, _, _, _, _, _, _)
\* the `for expr in annotation.assumptions` loop (assertions = FALSE) and the
\* `for expr in annotation.assertions` loop (assertions = TRUE)
AnnotationExprs(es, i, t, info, annotation, assertions, rhs) ==
    IF i > Len(es) THEN [tree |-> t, info |-> info, panic |-> ""]
    ELSE The({
        (IF a.panic # "" THEN [tree |-> a.tree, info |-> a.info, panic |-> a.panic]
         ELSE The({
            (IF b.panic # "" THEN b
             ELSE AnnotationExprs(es, i + 1,
                      IF ~assertions THEN b.tree
                      ELSE IF rhs THEN PushRhsAssertion(b.tree, a.e)
                      ELSE PushAssumption(b.tree, a.e),
                      b.info, annotation, assertions, rhs))
            : b \in {add_isle_constraints(termenv_terms[info.term[1]],
                         IF assertions THEN a.tree ELSE PushAssumption(a.tree, a.e),
                         a.info, annotation.sig)} }))
        : a \in {add_annotation_constraints(es[i], t, info)} })

RECURSIVE TieArgs_unpropagated(_, _, _, _, _)
\* TieArgs, had the value of a literal rule argument not been propagated to
\* the annotation variable
TieArgs_unpropagated(nodes_, args, i, t, info) ==
    IF i > Len(nodes_) \/ i > Len(args) THEN [tree |-> t, panic |-> ""]
    ELSE IF ~Has(info.var_to_type_var, args[i].name)
    THEN [tree |-> t, panic |-> "no_annotation_type_var"]
    ELSE The({
        TieArgs_unpropagated(nodes_, args, i + 1, t2, info)
        : t2 \in {InsertVar(t, Variable(nodes_[i].type_var,
                                        info.var_to_type_var[args[i].name]))} })

RECURSIVE TieArgs(_, _, _, _, _)
\* `for (child, arg) in curr.children.iter().zip(&annotation.sig.args)`
TieArgs(nodes_, args, i, t, info) ==
    IF i > Len(nodes_) \/ i > Len(args) THEN [tree |-> t, panic |-> ""]
    ELSE IF ~Has(info.var_to_type_var, args[i].name)
    THEN [tree |-> t, panic |-> "no_annotation_type_var"]
    ELSE The({
        TieArgs(nodes_, args, i + 1, t2, info)
        : t2 \in {LET rule_type_var == nodes_[i].type_var
                      annotation_type_var == info.var_to_type_var[args[i].name]
                      t1 == IF Has(t.type_var_to_val_map, rule_type_var)
                            THEN [t EXCEPT !.type_var_to_val_map =
                                      Put(@, annotation_type_var, @[rule_type_var])]
                            ELSE t
                  IN InsertVar(t1, Variable(rule_type_var, annotation_type_var))} })

RECURSIVE EquateArgs(_, _, _, _, _)
\* `for (child, arg) in children.iter().zip(&annotation.sig.args)`
EquateArgs(children, args, i, t, info) ==
    IF i > Len(children) \/ i > Len(args) THEN t
    ELSE The({
        EquateArgs(children, args, i + 1, t2, info)
        : t2 \in {LET arg_name == AnnotationVarName(info, args[i].name)
                      t1 == InsertQuantified(t, arg_name,
                                             info.var_to_type_var[args[i].name])
                  IN PushAssumption(t1, Eq(children[i], TerminalVar(arg_name)))} })

RECURSIVE AndAssumptions(_, _, _)
\* `for (i, e) in children.iter().enumerate() { if i != 0 { ... } }`
AndAssumptions(t, first, rest) ==
    IF rest = <<>> THEN t
    ELSE AndAssumptions(PushAssumption(t, Eq(first, Head(rest))), first, Tail(rest))

RECURSIVE LetAssumptions(_, _, _, _)
\* `for (e, s) in children.iter().zip(bound)`
LetAssumptions(t, children, bound, i) ==
    IF i > Len(children) \/ i > Len(bound) THEN t
    ELSE LetAssumptions(PushAssumption(t, Eq(TerminalVar(bound[i]), children[i])),
                        children, bound, i + 1)

\* the rest of the TypeVarConstruct::Term arm, once the assumptions and the
\* assertions of the annotation are in: the arguments, then the result
TermResult(ast, curr, children, infos, annotation) ==
    The({
        (IF tied.panic # "" THEN Constrained(None, tied.tree, infos, tied.panic)
         ELSE The({
            (LET ret_var == ast.info.var_to_type_var[annotation.sig.ret.name]
                 ret_name == AnnotationVarName(ast.info, annotation.sig.ret.name)
                 t2 == InsertVar(t1, Variable(curr.type_var, ret_var))
                 t3 == InsertQuantified(t2, ret_name, ret_var)
                 t4 == PushAssumption(t3, Eq(TerminalVar(curr.ident),
                                             TerminalVar(ret_name)))
             IN IF ~Has(ast.info.var_to_type_var, annotation.sig.ret.name)
                THEN Constrained(None, t1, infos, "no_annotation_type_var")
                ELSE Constrained(Some(TerminalVar(curr.ident)), t4,
                                 Append(infos, ast.info), ""))
            : t1 \in {EquateArgs(children, annotation.sig.args, 1, tied.tree,
                                 ast.info)} }))
        : tied \in {TieArgs(curr.children, annotation.sig.args, 1, ast.tree, ast.info)} })

\* the TypeVarConstruct::Term arm
TermConstraints(t, curr, children, infos, rhs) ==
    The({
        (IF a = None
         THEN Constrained(None, InsertQuantified(t, curr.ident, curr.type_var), infos, "")
         ELSE The({
            (IF asm.panic # "" THEN Constrained(None, asm.tree, infos, asm.panic)
             ELSE The({
                (IF ast.panic # "" THEN Constrained(None, ast.tree, infos, ast.panic)
                 ELSE TermResult(ast, curr, children, infos, a[2]))
                : ast \in {AnnotationExprs(a[2].assertions, 1, asm.tree, asm.info, a[2],
                                           TRUE, rhs)} }))
            : asm \in {AnnotationExprs(a[2].assumptions, 1,
                                       InsertQuantified(t, curr.ident, curr.type_var),
                                       AnnotationTypeInfo(curr.ident, EmptyMap), a[2],
                                       FALSE, rhs)} }))
        : a \in {get_annotation_for_term(curr.construct[2])} })

RECURSIVE add_rule_constraints(_, _, _, _)
RECURSIVE ConstrainChildren(_, _, _, _, _, _)

\* the `for child in &mut curr.children` loop; e = None once a child gave None
ConstrainChildren(nodes_, i, t, infos, rhs, acc) ==
    IF i > Len(nodes_) THEN [children |-> acc, e |-> Some(acc), tree |-> t,
                             infos |-> infos, panic |-> ""]
    ELSE The({
        (IF c.panic # "" \/ c.e = None
         THEN [children |-> acc, e |-> None, tree |-> c.tree, infos |-> c.infos,
               panic |-> c.panic]
         ELSE ConstrainChildren(nodes_, i + 1, c.tree, c.infos, rhs,
                                Append(acc, c.e[2])))
        : c \in {add_rule_constraints(t, nodes_[i], infos, rhs)} })

\* the `match curr.construct` of add_rule_constraints, on the expressions
\* `children` of the node's children
ConstructConstraints(t, curr, children, infos, rhs) ==
    CASE curr.construct[1] = "Var" ->
            Constrained(Some(TerminalVar(curr.ident)),
                        InsertFree(InsertQuantified(t, curr.ident, curr.type_var),
                                   curr.ident, curr.type_var),
                        infos, "")
      [] curr.construct[1] = "BindPattern" ->
            IF Len(children) # 2
            THEN Constrained(None, t, infos, "assert_eq_children_len")
            ELSE Constrained(Some(children[1]),
                             PushAssumption(t, Eq(children[1], children[2])),
                             infos, "")
      [] curr.construct[1] = "Wildcard" ->
            Constrained(Some(<<"Wildcard", curr.construct[2]>>), t, infos, "")
      [] curr.construct[1] = "Const" ->
            Constrained(Some(<<"Const", curr.construct[2], curr.type_var>>),
                        [t EXCEPT !.type_var_to_val_map =
                             Put(@, curr.type_var, curr.construct[2])],
                        infos, "")
      [] curr.construct[1] = "And" ->
            IF children = <<>>
            THEN Constrained(None, InsertQuantified(t, curr.ident, curr.type_var),
                             infos, "index_out_of_bounds")
            ELSE Constrained(Some(children[1]),
                             AndAssumptions(InsertQuantified(t, curr.ident,
                                                             curr.type_var),
                                            children[1], Tail(children)),
                             infos, "")
      [] curr.construct[1] = "Let" ->
            Constrained(IF children = <<>> THEN None
                        ELSE Some(children[Len(children)]),
                        LetAssumptions(InsertQuantified(t, curr.ident, curr.type_var),
                                       children, curr.construct[2], 1),
                        infos, "")
      [] curr.construct[1] = "Term" ->
            TermConstraints(t, curr, children, infos, rhs)

add_rule_constraints(t, curr, infos, rhs) ==
    The({
        (IF cs.panic # "" \/ cs.e = None
         THEN Constrained(None, cs.tree, cs.infos, cs.panic)
         ELSE The({
            (IF r.panic # "" \/ r.e = None THEN r
             ELSE Constrained(r.e, InsertTyVar(r.tree, r.e[2], curr.type_var),
                              r.infos, ""))
            : r \in {ConstructConstraints(cs.tree, curr, cs.children, cs.infos, rhs)} }))
        : cs \in {ConstrainChildren(curr.children, 1, t, infos, rhs, <<>>)} })


(***************************************************************************)
(* TypeSolver.  Every type variable named by a constraint or by a known    *)
(* value gets a SymbolicType: a discriminant, a bit-vector width option    *)
(* and an integer value option.  The SMT solver is modelled by the set of  *)
(* its models: the assignments that satisfy every assertion.  Integers     *)
(* the solver is free to choose range over NumDom.                         *)
(***************************************************************************)
\* TypeDiscriminant
DiscBitVector == 1
DiscInt == 2
DiscBool == 3

\* the integers a free width or value is drawn from
NumDom == {0 - 16} \cup {16 * k : k \in 0..MaxUnits}

Min(S) == CHOOSE x \in S : \A y \in S : x <= y

\* the type variables a constraint names (get_symbolic_type declares each)
TypeVarsOf(c) ==
    CASE c[1] = "Concrete" -> {c[2]}
      [] c[1] = "Variable" -> {c[2], c[3]}
      [] c[1] = "WidthInt" -> {c[2], c[3]}
      [] c[1] = "Symbolic" -> Range(c[2]) \cup Range(c[3])

\* the keys of symbolic_types once the constraints and values are added
symbolic_types(cs, vals) == UNION {TypeVarsOf(c) : c \in cs} \cup DOMAIN vals

\* the part of a SymbolicType that get_type reads
SymbolicType(disc, bw_some, bw_val) ==
    [disc |-> disc, bw_some |-> bw_some, bw_val |-> bw_val]

\* SymbolicType::decl: the values the declaration's invariants allow
decl(nums) ==
    {SymbolicType(DiscBitVector, FALSE, 0), SymbolicType(DiscInt, FALSE, 0),
     SymbolicType(DiscBool, FALSE, 0)}
    \cup {SymbolicType(DiscBitVector, TRUE, n) : n \in nums}

\* concrete, had a BitVectorWithWidth asserted the discriminant only
concrete_any_width(o, ty) ==
    CASE ty[1] = "BitVector" -> o.disc = DiscBitVector
      [] ty[1] = "BitVectorWithWidth" -> o.disc = DiscBitVector
      [] ty[1] = "Int" -> o.disc = DiscInt
      [] ty[1] = "Bool" -> o.disc = DiscBool

\* TypeSolver::concrete on the symbolic type o of v
concrete(o, ty) ==
    CASE ty[1] = "BitVector" -> o.disc = DiscBitVector
      [] ty[1] = "BitVectorWithWidth" ->
            o.disc = DiscBitVector /\ o.bw_some /\ o.bw_val = ty[2]
      [] ty[1] = "Int" -> o.disc = DiscInt
      [] ty[1] = "Bool" -> o.disc = DiscBool

\* concrete's `_ => todo!()` arm
ConcreteTodo(ty) == ty[1] \in {"Poly", "BitVectorUnknown"}

\* TypeSolver::variable / assert_types_equal: same discriminant, same width
\* option; nothing about the integer value
variable(a, b) ==
    a.disc = b.disc /\ a.bw_some = b.bw_some /\ a.bw_val = b.bw_val

\* symbolic_sum, had the equality of the sums not been asserted
symbolic_sum_dropped(m, l, r) == TRUE

\* TypeSolver::symbolic_sum over an assignment m
symbolic_sum(m, l, r) ==
    SumSeq([i \in DOMAIN l |-> m[l[i]].bw_val]) = SumSeq([i \in DOMAIN r |-> m[r[i]].bw_val])

\* integer_values, had width_int not tied w's integer value to v's width
integer_values_untied(m, w, cs, vals) ==
    IF m[w].disc # DiscInt THEN {<<FALSE, 0>>}
    ELSE IF w \in DOMAIN vals THEN {<<TRUE, vals[w]>>}
    ELSE {<<FALSE, 0>>} \cup {<<TRUE, n>> : n \in NumDom}

\* integer_values, had Variable(u, w) carried u's known value over to w
integer_values_aliased(m, w, cs, vals) ==
    The({
        (IF m[w].disc # DiscInt
         THEN {iv \in {<<FALSE, 0>>} : pinned \subseteq {iv}}
         ELSE IF pinned = {} THEN {<<FALSE, 0>>} \cup {<<TRUE, n>> : n \in NumDom}
         ELSE IF Cardinality(pinned) = 1 THEN pinned
         ELSE {})
        : pinned \in {
            (IF m[w].disc = DiscInt
             THEN {<<TRUE, vals[u]>> :
                      u \in {x \in DOMAIN vals :
                                 \/ x = w
                                 \/ Variable(x, w) \in cs
                                 \/ Variable(w, x) \in cs}}
             ELSE {})
            \cup {<<m[c[2]].bw_some, m[c[2]].bw_val>> :
                     c \in {d \in cs : d[1] = "WidthInt" /\ d[3] = w}} } })

\* the integer_value options of w that m allows: set_value (when w is an
\* Int) and every width_int(v, w) pin it; <<some, value>>
integer_values(m, w, cs, vals) ==
    The({
        (IF m[w].disc # DiscInt
         THEN {iv \in {<<FALSE, 0>>} : pinned \subseteq {iv}}
         ELSE IF pinned = {} THEN {<<FALSE, 0>>} \cup {<<TRUE, n>> : n \in NumDom}
         ELSE IF Cardinality(pinned) = 1 THEN pinned
         ELSE {})
        : pinned \in {
            (IF w \in DOMAIN vals /\ m[w].disc = DiscInt
             THEN {<<TRUE, vals[w]>>} ELSE {})
            \cup {<<m[c[2]].bw_some, m[c[2]].bw_val>> :
                     c \in {d \in cs : d[1] = "WidthInt" /\ d[3] = w}} } })

\* TypeSolver::width_int: v is a bit-vector, w an integer (the equality of
\* v's width and w's value is integer_values' part)
width_int(m, v, w) ==
    m[v].disc = DiscBitVector /\ m[w].disc = DiscInt

RECURSIVE Component(_, _)
\* the type variables tied to those of S by Variable constraints
Component(S, cs) ==
    The({
        (IF S2 = S THEN S2 ELSE Component(S2, cs))
        : S2 \in {S \cup {c[3] : c \in {d \in cs : d[1] = "Variable" /\ d[2] \in S}}
                    \cup {c[2] : c \in {d \in cs : d[1] = "Variable" /\ d[3] \in S}}} })

RECURSIVE ClassesOf(_, _)
ClassesOf(tvs, cs) ==
    IF tvs = {} THEN <<>>
    ELSE The({
        The({ <<K>> \o rest : rest \in {ClassesOf(tvs \ K, cs)} })
        : K \in {Component({Min(tvs)}, cs)} })

\* the widths the constraints pin the members of K to
PinnedWidths(K, cs, vals) ==
    {c[3][2] : c \in {d \in cs : d[1] = "Concrete" /\ d[2] \in K
                                  /\ d[3][1] = "BitVectorWithWidth"}}
    \cup {vals[c[3]] : c \in {d \in cs : d[1] = "WidthInt" /\ d[2] \in K
                                          /\ d[3] \in DOMAIN vals}}

\* the symbolic types every member of K can have: those that satisfy the
\* Concrete and WidthInt assertions on the members
Candidates(K, cs, vals) ==
    {o \in decl(NumDom \cup PinnedWidths(K, cs, vals)) :
        \A c \in cs :
            /\ (c[1] = "Concrete" /\ c[2] \in K) => concrete(o, c[3])
            /\ (c[1] = "WidthInt" /\ c[2] \in K) => o.disc = DiscBitVector
            /\ (c[1] = "WidthInt" /\ c[3] \in K) => o.disc = DiscInt}

RECURSIVE ClassModels(_, _, _, _)
ClassModels(classes, i, cs, vals) ==
    IF i > Len(classes) THEN {<<>>}
    ELSE {<<o>> \o r : o \in Candidates(classes[i], cs, vals),
                       r \in ClassModels(classes, i + 1, cs, vals)}

\* the models of the asserted constraints: one symbolic type per variable
Models(cs, vals) ==
    The({
        The({
            {m \in {[v \in DOMAIN index |-> s[index[v]]] :
                       s \in ClassModels(classes, 1, cs, vals)} :
                /\ \A c \in cs : c[1] = "Symbolic" => symbolic_sum(m, c[2], c[3])
                /\ \A c \in cs : c[1] = "WidthInt" => width_int(m, c[2], c[3])
                /\ \A w \in DOMAIN index : integer_values(m, w, cs, vals) # {}}
            : index \in {[v \in symbolic_types(cs, vals) |->
                             CHOOSE i \in DOMAIN classes : v \in classes[i]]} })
        : classes \in {ClassesOf(symbolic_types(cs, vals), cs)} })

\* TypeSolver::get_type; None stands for the failed usize::try_from
get_type(o) ==
    CASE o.disc = DiscBitVector /\ ~o.bw_some -> Some(TyBitVector)
      [] o.disc = DiscBitVector /\ o.bw_some ->
            IF o.bw_val < 0 THEN None ELSE Some(TyBitVectorWithWidth(o.bw_val))
      [] o.disc = DiscBool -> Some(TyBool)
      [] o.disc = DiscInt -> Some(TyInt)


(***************************************************************************)
(* display_isle_pattern / display_isle_expr: the rendering of the typed    *)
(* rule.  Only its panics matter here: the result is the panic that        *)
(* unwound the call, "" when it returned.                                  *)
(***************************************************************************)
\* `t.term.starts_with(&name)` on "name__tv"; no term name of termenv_terms
\* extends another one by "__"
starts_with(ident, name) == ident[1] = name

\* `annotation_infos.iter().filter(|t| t.term.starts_with(&name))`
Matches(infos, name) == SelectSeq(infos, LAMBDA t : starts_with(t.term, name))

\* `anno.remove(index)` of the first info whose term equals the first match's
RemoveFirst(infos, term) ==
    LET index == Min({i \in DOMAIN infos : infos[i].term = term})
    IN [i \in 1..(Len(infos) - 1) |-> IF i < index THEN infos[i] ELSE infos[i + 1]]

\* `type_sols.get(value.var_to_type_var.get(name).unwrap()).unwrap()`
LookupPanics(info, name, sols) ==
    ~Has(info.var_to_type_var, name) \/ ~Has(sols, info.var_to_type_var[name])

\* the `[type|name]` atom of a term: via the first match's "result"
TermAtomPanic(infos, name, sols) ==
    The({
        (IF matches = <<>> THEN "cant_find_match"
         ELSE IF LookupPanics(matches[1], "result", sols) THEN "unwrap_none"
         ELSE "")
        : matches \in {Matches(infos, name)} })

\* the annotation_infos handed to the arguments of a term
ArgInfos(infos, name) ==
    The({
        (IF Len(matches) > 1 THEN RemoveFirst(infos, matches[1].term) ELSE infos)
        : matches \in {Matches(infos, name)} })

\* the atom of a variable: the parent's annotation variable of that name,
\* else (fallback = TRUE) the parent's "arg"
VarAtomPanic(parent, ident, sols, fallback) ==
    IF parent = None THEN ""
    ELSE IF Has(parent[2].var_to_type_var, ident)
    THEN IF LookupPanics(parent[2], ident, sols) THEN "unwrap_none" ELSE ""
    ELSE IF fallback /\ ~LookupPanics(parent[2], "arg", sols) THEN ""
    ELSE "unwrap_none"

RECURSIVE display_isle_pattern(_, _, _, _, _)
RECURSIVE DisplayPatterns(_, _, _, _, _, _)

\* `args.iter().map(|a| to_sexpr(..))`: the first panic wins
DisplayPatterns(rule, infos, sols, pats, i, parent) ==
    IF i > Len(pats) THEN ""
    ELSE The({
        (IF p # "" THEN p
         ELSE DisplayPatterns(rule, infos, sols, pats, i + 1, parent))
        : p \in {display_isle_pattern(rule, infos, sols, pats[i], parent)} })

display_isle_pattern(rule, infos, sols, pat, parent) ==
    CASE pat[1] = "Term" ->
            The({
                (IF p # "" THEN p
                 ELSE The({
                    DisplayPatterns(rule, arg_infos, sols, pat[3], 1, first)
                    : arg_infos \in {ArgInfos(infos, pat[2])},
                      first \in {Some(Matches(infos, pat[2])[1])} }))
                : p \in {TermAtomPanic(infos, pat[2], sols)} })
      [] pat[1] = "Var" ->
            VarAtomPanic(parent, VarName(rule, pat[2]), sols, FALSE)
      [] pat[1] = "BindPattern" ->
            The({
                (IF p # "" THEN p
                 ELSE VarAtomPanic(parent, VarName(rule, pat[2]), sols, TRUE))
                : p \in {display_isle_pattern(rule, infos, sols, pat[3], parent)} })
      [] pat[1] = "And" -> DisplayPatterns(rule, infos, sols, pat[2], 1, parent)
      [] OTHER -> ""

RECURSIVE display_isle_expr(_, _, _, _, _)
RECURSIVE DisplayExprs(_, _, _, _, _, _)

DisplayExprs(rule, infos, sols, es, i, parent) ==
    IF i > Len(es) THEN ""
    ELSE The({
        (IF p # "" THEN p
         ELSE DisplayExprs(rule, infos, sols, es, i + 1, parent))
        : p \in {display_isle_expr(rule, infos, sols, es[i], parent)} })

display_isle_expr(rule, infos, sols, expr, parent) ==
    CASE expr[1] = "Term" ->
            The({
                (IF p # "" THEN p
                 ELSE The({
                    DisplayExprs(rule, arg_infos, sols, expr[3], 1, first)
                    : arg_infos \in {ArgInfos(infos, expr[2])},
                      first \in {Some(Matches(infos, expr[2])[1])} }))
                : p \in {TermAtomPanic(infos, expr[2], sols)} })
      [] expr[1] = "Var" ->
            VarAtomPanic(parent, VarName(rule, expr[2]), sols, TRUE)
      [] expr[1] = "Let" ->
            The({
                (IF p # "" THEN p
                 ELSE display_isle_expr(rule, infos, sols, expr[3], parent))
                : p \in {DisplayExprs(rule, infos, sols,
                                      [i \in DOMAIN expr[2] |-> expr[2][i][2]], 1,
                                      parent)} })
      [] OTHER -> ""


(***************************************************************************)
(* The inputs of a run: the rule list, the signature instantiation of the  *)
(* target term and the Config.                                             *)
(***************************************************************************)
\* sema::Rule; vars holds the names of the rule's variables, indexed by VarId
Rule(id, name, root_term, args, iflets, rhs, rule_vars) ==
    [id |-> id, name |-> name, root_term |-> root_term, args |-> args,
     iflets |-> iflets, rhs |-> rhs, vars |-> rule_vars]

IfLet(lhs, rhs) == [lhs |-> lhs, rhs |-> rhs]

PTerm(name, args) == <<"Term", name, args>>
PVar(id) == <<"Var", id>>
ETerm(name, args) == <<"Term", name, args>>
EVar(id) == <<"Var", id>>

\* (lower (iadd x y))
LowerIadd == << PTerm("iadd", <<PVar(0), PVar(1)>>) >>

\* the rules a rule list is drawn from
RuleCorpus ==
    { \* (rule iadd_to_add (lower (iadd x y)) (add x y))
      Rule(1, Some("iadd_to_add"), "lower", LowerIadd, <<>>,
           ETerm("add", <<EVar(0), EVar(1)>>), <<"x", "y">>),
      \* (rule concat64 (lower z @ (concat x y)) (output z))
      Rule(2, Some("concat64"), "lower",
           << <<"BindPattern", 0, PTerm("concat", <<PVar(1), PVar(2)>>)>> >>, <<>>,
           ETerm("output", <<EVar(0)>>), <<"z", "x", "y">>),
      \* (rule concat48 (lower z @ (concat32 x y)) (output z))
      Rule(3, Some("concat48"), "lower",
           << <<"BindPattern", 0, PTerm("concat32", <<PVar(1), PVar(2)>>)>> >>, <<>>,
           ETerm("output", <<EVar(0)>>), <<"z", "x", "y">>),
      \* (rule (lower (mystery x)) (output x))
      Rule(4, None, "lower", << PTerm("mystery", <<PVar(0)>>) >>, <<>>,
           ETerm("output", <<EVar(0)>>), <<"x">>),
      \* (rule to_mystery (lower (iadd x y)) (mystery x))
      Rule(5, Some("to_mystery"), "lower", LowerIadd, <<>>,
           ETerm("mystery", <<EVar(0)>>), <<"x", "y">>),
      \* (rule typed_iadd (lower (has_type $I64 (iadd x y))) (add x y))
      Rule(6, Some("typed_iadd"), "lower",
           << PTerm("has_type", << <<"ConstPrim", "I64">>,
                                   PTerm("iadd", <<PVar(0), PVar(1)>>) >>) >>, <<>>,
           ETerm("add", <<EVar(0), EVar(1)>>), <<"x", "y">>),
      \* (rule add_i16 (lower (iadd x y)) (add x $I16))
      Rule(7, Some("add_i16"), "lower", LowerIadd, <<>>,
           ETerm("add", <<EVar(0), <<"ConstPrim", "I16">> >>), <<"x", "y">>),
      \* (rule float_iadd (lower (has_type $F64 (iadd x y))) (add x y))
      Rule(8, Some("float_iadd"), "lower",
           << PTerm("has_type", << <<"ConstPrim", "F64">>,
                                   PTerm("iadd", <<PVar(0), PVar(1)>>) >>) >>, <<>>,
           ETerm("add", <<EVar(0), EVar(1)>>), <<"x", "y">>),
      \* (rule and_iadd (lower (and arg (iadd x y))) (add x y))
      Rule(9, Some("and_iadd"), "lower",
           << <<"And", <<PVar(0), PTerm("iadd", <<PVar(1), PVar(2)>>)>> >> >>, <<>>,
           ETerm("add", <<EVar(1), EVar(2)>>), <<"arg", "x", "y">>),
      \* (rule and_one (lower (and arg)) (zero))
      Rule(10, Some("and_one"), "lower", << <<"And", <<PVar(0)>> >> >>, <<>>,
           ETerm("zero", <<>>), <<"arg">>),
      \* (rule (lower (iadd x y)) (let ((z (add x y))) (output z)))
      Rule(11, None, "lower", LowerIadd, <<>>,
           <<"Let", << <<2, ETerm("add", <<EVar(0), EVar(1)>>)>> >>,
                    ETerm("output", <<EVar(2)>>)>>,
           <<"x", "y", "z">>),
      \* (rule iflet_add (lower (iadd x y))
      \*       (if-let z (add x y)) (if-let w (add z y)) (output w))
      Rule(12, Some("iflet_add"), "lower", LowerIadd,
           << IfLet(PVar(2), ETerm("add", <<EVar(0), EVar(1)>>)),
              IfLet(PVar(3), ETerm("add", <<EVar(2), EVar(1)>>)) >>,
           ETerm("output", <<EVar(3)>>), <<"x", "y", "z", "w">>),
      \* (rule iflet_mystery (lower (iadd x y)) (if-let z (mystery x)) (output z))
      Rule(13, Some("iflet_mystery"), "lower", LowerIadd,
           << IfLet(PVar(2), ETerm("mystery", <<EVar(0)>>)) >>,
           ETerm("output", <<EVar(2)>>), <<"x", "y", "z">>),
      \* (rule iadd_swap (iadd x y) (iadd y x)): not a rule of `lower`
      Rule(14, Some("iadd_swap"), "iadd", <<PVar(0), PVar(1)>>, <<>>,
           ETerm("iadd", <<EVar(1), EVar(0)>>), <<"x", "y">>),
      \* (rule zext16 (lower z @ (zext x y)) (output z))
      Rule(15, Some("zext16"), "lower",
           << <<"BindPattern", 0, PTerm("zext", <<PVar(1), PVar(2)>>)>> >>, <<>>,
           ETerm("output", <<EVar(0)>>), <<"z", "x", "y">>),
      \* (rule sext16 (lower z @ (sext x y)) (output z))
      Rule(16, Some("sext16"), "lower",
           << <<"BindPattern", 0, PTerm("sext", <<PVar(1), PVar(2)>>)>> >>, <<>>,
           ETerm("output", <<EVar(0)>>), <<"z", "x", "y">>),
      \* (rule conv16 (lower z @ (conv x y)) (output z))
      Rule(17, Some("conv16"), "lower",
           << <<"BindPattern", 0, PTerm("conv", <<PVar(1), PVar(2)>>)>> >>, <<>>,
           ETerm("output", <<EVar(0)>>), <<"z", "x", "y">>),
      \* (rule conv_lit (lower z @ (conv32 y)) (output z))
      Rule(18, Some("conv_lit"), "lower",
           << <<"BindPattern", 0, PTerm("conv32", <<PVar(1)>>)>> >>, <<>>,
           ETerm("output", <<EVar(0)>>), <<"z", "y">>),
      \* (rule conv_arg (lower z @ (convw 32 y)) (output z))
      Rule(19, Some("conv_arg"), "lower",
           << <<"BindPattern", 0,
                PTerm("convw", << <<"ConstInt", 32>>, PVar(1)>>)>> >>, <<>>,
           ETerm("output", <<EVar(0)>>), <<"z", "y">>),
      \* (rule subs68 (lower z @ (subs ty x y)) (output z))
      Rule(20, Some("subs68"), "lower",
           << <<"BindPattern", 0, PTerm("subs", <<PVar(1), PVar(2), PVar(3)>>)>> >>,
           <<>>, ETerm("output", <<EVar(0)>>), <<"z", "ty", "x", "y">>),
      \* (rule generic_x (lower (generic x)) (output x))
      Rule(21, Some("generic_x"), "lower", << PTerm("generic", <<PVar(0)>>) >>, <<>>,
           ETerm("output", <<EVar(0)>>), <<"x">>),
      \* (rule lower_lower (lower (lower arg)) (output arg))
      Rule(22, Some("lower_lower"), "lower", << PTerm("lower", <<PVar(0)>>) >>, <<>>,
           ETerm("output", <<EVar(0)>>), <<"arg">>),
      \* (rule let_two (lower (iadd x y))
      \*       (let ((z (add x y)) (w (output z))) (output w)))
      Rule(23, Some("let_two"), "lower", LowerIadd, <<>>,
           <<"Let", << <<2, ETerm("add", <<EVar(0), EVar(1)>>)>>,
                       <<3, ETerm("output", <<EVar(2)>>)>> >>,
                    ETerm("output", <<EVar(3)>>)>>,
           <<"x", "y", "z", "w">>),
      \* (rule bare_x (lower (bare x)) (output x))
      Rule(24, Some("bare_x"), "lower", << PTerm("bare", <<PVar(0)>>) >>, <<>>,
           ETerm("output", <<EVar(0)>>), <<"x">>),
      \* (rule pick_lit (lower (pick $I64 $true $I8)) (zero))
      Rule(25, Some("pick_lit"), "lower",
           << PTerm("pick", << <<"ConstPrim", "I64">>, <<"ConstPrim", "true">>,
                               <<"ConstPrim", "I8">> >>) >>, <<>>,
           ETerm("zero", <<>>), <<>>),
      \* (rule and_ty (lower (has_type (and ty $I64) (iadd x y))) (add x y))
      Rule(26, Some("and_ty"), "lower",
           << PTerm("has_type", << <<"And", <<PVar(0), <<"ConstPrim", "I64">> >> >>,
                                   PTerm("iadd", <<PVar(1), PVar(2)>>) >>) >>, <<>>,
           ETerm("add", <<EVar(1), EVar(2)>>), <<"ty", "x", "y">>) }

\* the rules that come before the last rule of a list: one that is typed,
\* one whose constraints can be unsatisfiable, one with an unannotated term,
\* one with an unrecognized token and one of another term
LeadingRules == {r \in RuleCorpus : r.id \in {1, 3, 4, 8, 14}}

\* termenv.rules: up to MaxRules rules with distinct ids; any rule of the
\* corpus comes last, after leading rules in the order of their ids
RuleLists ==
    {l \in UNION {[1..n -> RuleCorpus] : n \in 1..MaxRules} :
        /\ \A i \in 1..(Len(l) - 1) : l[i] \in LeadingRules
        /\ \A i, j \in 1..(Len(l) - 1) : i < j => l[i].id < l[j].id
        /\ \A i \in 1..(Len(l) - 1) : l[i].id # l[Len(l)].id}

\* veri_ir::TermSignature: an instantiation of the target term's signature
TermSignature(args, ret) == [args |-> args, ret |-> ret]

TypeInstantiations ==
    { TermSignature(<<VirBitVector(Some(REG_WIDTH))>>, VirBitVector(Some(REG_WIDTH))),
      TermSignature(<<VirBitVector(None)>>, VirBitVector(None)) }

\* Config
Config(term, names) == [term |-> term, names |-> names]

Configs ==
    { Config("lower", None),
      Config("lower", Some({"iadd_to_add", "concat64", "concat48", "and_one"})) }


(***************************************************************************)
(* The driver (type_rules_with_term_and_types) and, step by step,          *)
(* type_annotations_using_rule on the rule it selected.                    *)
(***************************************************************************)
\* the root nodes the rule's parse has built; `built` keeps all of them, in
\* the order they were built
NoNodes == [iflet_lhs |-> NoNode, iflet_rhs |-> NoNode, lhs |-> NoNode, rhs |-> NoNode,
            built |-> <<>>]
NoExprs == [lhs |-> None, rhs |-> None]
NoSolver == [asserted |-> {}, values |-> EmptyMap, symbolic_types |-> {},
             response |-> "", solution |-> EmptyMap]

Init ==
    /\ rules \in RuleLists
    /\ types \in TypeInstantiations
    /\ config \in Configs
    /\ run = "running"
    /\ panic = ""
    /\ rule_idx = 1
    /\ solutions = EmptyMap
    /\ pc = "loop"
    /\ tree = NewRuleParseTree
    /\ annotation_infos = <<>>
    /\ iflet_idx = 1
    /\ nodes = NoNodes
    /\ exprs = NoExprs
    /\ smt = NoSolver
    /\ hist = [i \in DOMAIN rules |-> <<>>]

\* the rule the `for rule in &termenv.rules` loop is at
rule == rules[rule_idx]

\* termname::pattern_contains_termname on the rule's root pattern: the rule's
\* LHS root term is the configured term
pattern_contains_termname(r, term) == r.root_term = term

\* the two `continue`s of the loop body
Selected(r) ==
    /\ pattern_contains_termname(r, config.term)
    /\ config.names # None => (r.name # None /\ r.name[2] \in config.names[2])

\* the state of the rule the spec's state machine is in is appended to hist
Enter(state) ==
    hist' = [hist EXCEPT ![rule_idx] =
                IF @ # <<>> /\ @[Len(@)] = state THEN @ ELSE Append(@, state)]

\* a panic unwinds main: the process is gone, nothing else changes
Abort(reason) ==
    /\ run' = "aborted"
    /\ panic' = reason
    /\ UNCHANGED <<rule_idx, solutions, pc, hist>>

\* ReturnNone, had the driver recorded the rule all the same
ReturnNone_recorded(t, infos) ==
    /\ tree' = t
    /\ annotation_infos' = infos
    /\ pc' = "loop"
    /\ rule_idx' = rule_idx + 1
    /\ solutions' = Put(solutions, rule.id, None)
    /\ Enter("Skipped")
    /\ UNCHANGED <<run, panic, iflet_idx, nodes, exprs, smt>>

\* type_annotations_using_rule returned None: the loop goes on
ReturnNone(t, infos) ==
    /\ tree' = t
    /\ annotation_infos' = infos
    /\ pc' = "loop"
    /\ rule_idx' = rule_idx + 1
    /\ Enter("Skipped")
    /\ UNCHANGED <<run, panic, solutions, iflet_idx, nodes, exprs, smt>>

Running(at) == run = "running" /\ pc \in at /\ rule_idx \in DOMAIN rules

\* `continue`: the rule is not one of the configured term, or not a named one
SkipRule ==
    /\ Running({"loop"})
    /\ ~Selected(rule)
    /\ rule_idx' = rule_idx + 1
    /\ UNCHANGED <<rules, types, config, run, panic, solutions, pc, tree,
                   annotation_infos, iflet_idx, nodes, exprs, smt, hist>>

\* StartRule, had the RuleParseTree and the annotation infos been shared by
\* the iterations of the loop
StartRule_shared ==
    /\ Running({"loop"})
    /\ Selected(rule)
    /\ pc' = "fresh"
    /\ iflet_idx' = 1
    /\ nodes' = NoNodes
    /\ exprs' = NoExprs
    /\ smt' = NoSolver
    /\ Enter("Fresh")
    /\ UNCHANGED <<rules, types, config, run, panic, rule_idx, solutions, tree,
                   annotation_infos>>

\* the call of type_annotations_using_rule: a fresh RuleParseTree
StartRule ==
    /\ Running({"loop"})
    /\ Selected(rule)
    /\ pc' = "fresh"
    /\ tree' = NewRuleParseTree
    /\ annotation_infos' = <<>>
    /\ iflet_idx' = 1
    /\ nodes' = NoNodes
    /\ exprs' = NoExprs
    /\ smt' = NoSolver
    /\ Enter("Fresh")
    /\ UNCHANGED <<rules, types, config, run, panic, rule_idx, solutions>>

\* one if-let: create_parse_tree_pattern on its lhs, create_parse_tree_expr
\* on its rhs
IfLetParse ==
    /\ Running({"fresh", "iflets"})
    /\ iflet_idx <= Len(rule.iflets)
    /\ \E l \in {create_parse_tree_pattern(rule, rule.iflets[iflet_idx].lhs, tree,
                                           config.term, types)} :
       \E r \in {create_parse_tree_expr(rule, rule.iflets[iflet_idx].rhs, l.tree)} :
          IF l.panic # "" \/ r.panic # ""
          THEN /\ Abort(IF l.panic # "" THEN l.panic ELSE r.panic)
               /\ UNCHANGED <<tree, nodes>>
          ELSE /\ tree' = r.tree
               /\ nodes' = [nodes EXCEPT !.iflet_lhs = l.node, !.iflet_rhs = r.node,
                                      !.built = @ \o <<l.node, r.node>>]
               /\ pc' = "iflet"
               /\ Enter("Parsed")
               /\ UNCHANGED <<run, panic, rule_idx, solutions>>
    /\ UNCHANGED <<rules, types, config, annotation_infos, iflet_idx, exprs, smt>>

\* IfLetConstrain, had the two sides of the if-let not been related by a
\* Variable constraint
IfLetConstrain_untied ==
    /\ Running({"iflet"})
    /\ \E l \in {add_rule_constraints(tree, nodes.iflet_lhs, annotation_infos, FALSE)} :
          IF l.panic # ""
          THEN Abort(l.panic) /\ UNCHANGED <<tree, annotation_infos, iflet_idx>>
          ELSE IF l.e = None
          THEN ReturnNone(l.tree, l.infos)
          ELSE \E r \in {add_rule_constraints(l.tree, nodes.iflet_rhs, l.infos, FALSE)} :
             IF r.panic # ""
             THEN Abort(r.panic) /\ UNCHANGED <<tree, annotation_infos, iflet_idx>>
             ELSE IF r.e = None
             THEN ReturnNone(r.tree, r.infos)
             ELSE /\ tree' = PushAssumption(r.tree, Eq(l.e[2], r.e[2]))
                  /\ annotation_infos' = r.infos
                  /\ iflet_idx' = iflet_idx + 1
                  /\ pc' = "iflets"
                  /\ UNCHANGED <<run, panic, rule_idx, solutions, hist>>
    /\ UNCHANGED <<rules, types, config, nodes, exprs, smt>>

\* the rest of the if-let iteration: add_rule_constraints on both sides,
\* then Variable(iflet_lhs, iflet_rhs) and the assumption
IfLetConstrain ==
    /\ Running({"iflet"})
    /\ \E l \in {add_rule_constraints(tree, nodes.iflet_lhs, annotation_infos, FALSE)} :
          IF l.panic # ""
          THEN Abort(l.panic) /\ UNCHANGED <<tree, annotation_infos, iflet_idx>>
          ELSE IF l.e = None
          THEN ReturnNone(l.tree, l.infos)
          ELSE \E r \in {add_rule_constraints(l.tree, nodes.iflet_rhs, l.infos, FALSE)} :
             IF r.panic # ""
             THEN Abort(r.panic) /\ UNCHANGED <<tree, annotation_infos, iflet_idx>>
             ELSE IF r.e = None
             THEN ReturnNone(r.tree, r.infos)
             ELSE /\ tree' = PushAssumption(
                                InsertVar(r.tree, Variable(nodes.iflet_lhs.type_var,
                                                           nodes.iflet_rhs.type_var)),
                                Eq(l.e[2], r.e[2]))
                  /\ annotation_infos' = r.infos
                  /\ iflet_idx' = iflet_idx + 1
                  /\ pc' = "iflets"
                  /\ UNCHANGED <<run, panic, rule_idx, solutions, hist>>
    /\ UNCHANGED <<rules, types, config, nodes, exprs, smt>>

\* create_parse_tree_pattern on the rule's root pattern, create_parse_tree_expr
\* on its rhs
Parse ==
    /\ Running({"fresh", "iflets"})
    /\ iflet_idx > Len(rule.iflets)
    /\ \E l \in {create_parse_tree_pattern(rule, PTerm(rule.root_term, rule.args),
                                           tree, config.term, types)} :
       \E r \in {create_parse_tree_expr(rule, rule.rhs, l.tree)} :
          IF l.panic # "" \/ r.panic # ""
          THEN /\ Abort(IF l.panic # "" THEN l.panic ELSE r.panic)
               /\ UNCHANGED <<tree, nodes>>
          ELSE /\ tree' = r.tree
               /\ nodes' = [nodes EXCEPT !.lhs = l.node, !.rhs = r.node,
                                      !.built = @ \o <<l.node, r.node>>]
               /\ pc' = "parsed"
               /\ Enter("Parsed")
               /\ UNCHANGED <<run, panic, rule_idx, solutions>>
    /\ UNCHANGED <<rules, types, config, annotation_infos, iflet_idx, exprs, smt>>

\* add_rule_constraints on the LHS (rhs = false)
ConstrainLhs ==
    /\ Running({"parsed"})
    /\ \E l \in {add_rule_constraints(tree, nodes.lhs, annotation_infos, FALSE)} :
          IF l.panic # ""
          THEN Abort(l.panic) /\ UNCHANGED <<tree, annotation_infos, exprs>>
          ELSE IF l.e = None
          THEN ReturnNone(l.tree, l.infos)
          ELSE /\ tree' = l.tree
               /\ annotation_infos' = l.infos
               /\ exprs' = [exprs EXCEPT !.lhs = l.e]
               /\ pc' = "lhs_done"
               /\ UNCHANGED <<run, panic, rule_idx, solutions, hist>>
    /\ UNCHANGED <<rules, types, config, iflet_idx, nodes, smt>>

\* ConstrainRhs, had the roots of the two sides not been related
ConstrainRhs_untied ==
    /\ Running({"lhs_done"})
    /\ \E r \in {add_rule_constraints(tree, nodes.rhs, annotation_infos, TRUE)} :
          IF r.panic # ""
          THEN Abort(r.panic) /\ UNCHANGED <<tree, annotation_infos, exprs>>
          ELSE IF r.e = None
          THEN ReturnNone(r.tree, r.infos)
          ELSE /\ tree' = r.tree
               /\ annotation_infos' = r.infos
               /\ exprs' = [exprs EXCEPT !.rhs = r.e]
               /\ pc' = "constrained"
               /\ Enter("Constrained")
               /\ UNCHANGED <<run, panic, rule_idx, solutions>>
    /\ UNCHANGED <<rules, types, config, iflet_idx, nodes, smt>>

\* add_rule_constraints on the RHS (rhs = true), then Variable(lhs, rhs)
ConstrainRhs ==
    /\ Running({"lhs_done"})
    /\ \E r \in {add_rule_constraints(tree, nodes.rhs, annotation_infos, TRUE)} :
          IF r.panic # ""
          THEN Abort(r.panic) /\ UNCHANGED <<tree, annotation_infos, exprs>>
          ELSE IF r.e = None
          THEN ReturnNone(r.tree, r.infos)
          ELSE /\ tree' = InsertVar(r.tree, Variable(nodes.lhs.type_var,
                                                     nodes.rhs.type_var))
               /\ annotation_infos' = r.infos
               /\ exprs' = [exprs EXCEPT !.rhs = r.e]
               /\ pc' = "constrained"
               /\ Enter("Constrained")
               /\ UNCHANGED <<run, panic, rule_idx, solutions>>
    /\ UNCHANGED <<rules, types, config, iflet_idx, nodes, smt>>

\* the constraint system handed to the solver
Constraints(t) == t.concrete_constraints \cup t.var_constraints \cup t.bv_constraints

\* solve_constraints up to `self.smt.check()`: the constraints and the known
\* values are asserted and the solver answers
SolverCheck ==
    /\ Running({"constrained"})
    /\ \E cs \in {Constraints(tree)} :
          IF \E c \in cs : c[1] = "Concrete" /\ ConcreteTodo(c[3])
          THEN Abort("todo_concrete") /\ UNCHANGED smt
          ELSE /\ smt' = [asserted |-> cs, values |-> tree.type_var_to_val_map,
                          symbolic_types |-> symbolic_types(cs, tree.type_var_to_val_map),
                          response |-> IF Models(cs, tree.type_var_to_val_map) # {}
                                       THEN "sat" ELSE "unsat",
                          solution |-> EmptyMap]
               /\ pc' = "solving"
               /\ Enter("Solving")
               /\ UNCHANGED <<run, panic, rule_idx, solutions>>
    /\ UNCHANGED <<rules, types, config, tree, annotation_infos, iflet_idx, nodes, exprs>>

\* TypeSolver::solve after the check: `assert_eq!(response, Response::Sat)`,
\* then get_type on every declared type variable of the solver's model
SolverSolve ==
    /\ Running({"solving"})
    /\ IF smt.response # "sat"
       THEN Abort("assert_response_sat") /\ UNCHANGED smt
       ELSE \E m \in Models(smt.asserted, smt.values) :
               IF \E v \in DOMAIN m : get_type(m[v]) = None
               THEN Abort("bitvector_width_not_usize") /\ UNCHANGED smt
               ELSE /\ smt' = [smt EXCEPT !.solution =
                                   [v \in DOMAIN m |-> get_type(m[v])[2]]]
                    /\ pc' = "solved"
                    /\ UNCHANGED <<run, panic, rule_idx, solutions, hist>>
    /\ UNCHANGED <<rules, types, config, tree, annotation_infos, iflet_idx, nodes, exprs>>

\* display_isle_pattern on the LHS, display_isle_expr on the RHS
Display ==
    /\ Running({"solved"})
    /\ \E l \in {display_isle_pattern(rule, annotation_infos, smt.solution,
                                      PTerm(rule.root_term, rule.args), None)} :
          IF l # ""
          THEN Abort(l)
          ELSE \E r \in {display_isle_expr(rule, annotation_infos, smt.solution,
                                           rule.rhs, None)} :
             IF r # ""
             THEN Abort(r)
             ELSE /\ pc' = "displayed"
                  /\ UNCHANGED <<run, panic, rule_idx, solutions, hist>>
    /\ UNCHANGED <<rules, types, config, tree, annotation_infos, iflet_idx, nodes,
                   exprs, smt>>

\* veri_ir::BoundVar
BoundVar(name, tyvar) == [name |-> name, tyvar |-> tyvar]

\* the type variables the three loops over ty_vars, quantified_vars and
\* free_vars look up in the solution
EmitterLookups(t) ==
    Range(t.ty_vars) \cup Range(t.quantified_vars) \cup Range(t.free_vars)

RECURSIVE InsertTyVars(_, _, _)
\* `parse_tree.ty_vars.insert(expr, *t)` for each (s, t) of a binder map
InsertTyVars(t, binders, names) ==
    IF names = {} THEN t
    ELSE The({
        InsertTyVars(InsertTyVar(t, TerminalVar(s), binders[s]), binders, names \ {s})
        : s \in {CHOOSE x \in names : TRUE} })

\* veri_ir::RuleSemantics
RuleSemantics(t, infos, solution, lhs, rhs) ==
    [annotation_infos |-> infos,
     type_var_to_type |-> solution,
     lhs |-> lhs,
     rhs |-> rhs,
     quantified_vars |-> {BoundVar(s, t.quantified_vars[s]) : s \in DOMAIN t.quantified_vars},
     free_vars |-> {BoundVar(s, t.free_vars[s]) : s \in DOMAIN t.free_vars},
     assumptions |-> t.assumptions,
     rhs_assertions |-> t.rhs_assertions]

\* the tymap loops, the RuleSemantics and, back in the driver,
\* `solutions.insert(rule.id, s)`
Emit ==
    /\ Running({"displayed"})
    /\ IF ~(EmitterLookups(tree) \subseteq DOMAIN smt.solution)
       THEN Abort("missing_type_variable") /\ UNCHANGED tree
       ELSE /\ tree' = InsertTyVars(InsertTyVars(tree, tree.quantified_vars,
                                                 DOMAIN tree.quantified_vars),
                                    tree.free_vars, DOMAIN tree.free_vars)
            /\ solutions' = Put(solutions, rule.id,
                                RuleSemantics(tree, annotation_infos, smt.solution,
                                              exprs.lhs[2], exprs.rhs[2]))
            /\ pc' = "loop"
            /\ rule_idx' = rule_idx + 1
            /\ Enter("Typed")
            /\ UNCHANGED <<run, panic>>
    /\ UNCHANGED <<rules, types, config, annotation_infos, iflet_idx, nodes, exprs, smt>>

\* the loop is over: `solutions` is returned
Finish ==
    /\ run = "running"
    /\ pc = "loop"
    /\ rule_idx > Len(rules)
    /\ run' = "done"
    /\ UNCHANGED <<rules, types, config, panic, rule_idx, solutions, pc, tree,
                   annotation_infos, iflet_idx, nodes, exprs, smt, hist>>

Next ==
    \/ SkipRule
    \/ StartRule
    \/ IfLetParse
    \/ IfLetConstrain
    \/ Parse
    \/ ConstrainLhs
    \/ ConstrainRhs
    \/ SolverCheck
    \/ SolverSolve
    \/ Display
    \/ Emit
    \/ Finish

Spec == Init /\ [][Next]_vars


(***************************************************************************)
(* Vocabulary of the properties.                                           *)
(***************************************************************************)
Last(s) == s[Len(s)]

RECURSIVE Names(_, _)
\* the names of the `tag` nodes ("Term" or "ConstPrim") of a pattern or an
\* expression
Names(x, tag) ==
    (IF x[1] = tag THEN {x[2]} ELSE {})
    \cup CASE x[1] = "Term" -> UNION {Names(x[3][i], tag) : i \in DOMAIN x[3]}
           [] x[1] = "BindPattern" -> Names(x[3], tag)
           [] x[1] = "And" -> UNION {Names(x[2][i], tag) : i \in DOMAIN x[2]}
           [] x[1] = "Let" -> UNION {Names(x[2][i][2], tag) : i \in DOMAIN x[2]}
                              \cup Names(x[3], tag)
           [] OTHER -> {}

\* the patterns and the expressions type_annotations_using_rule walks
RulePatterns(r) ==
    <<PTerm(r.root_term, r.args)>> \o [i \in DOMAIN r.iflets |-> r.iflets[i].lhs]
RuleExprs(r) ==
    <<r.rhs>> \o [i \in DOMAIN r.iflets |-> r.iflets[i].rhs]

RuleNames(parts, tag) == UNION {Names(parts[i], tag) : i \in DOMAIN parts}

\* a term of the rule has no annotation
HasUnannotatedTerm(r) ==
    \E n \in RuleNames(RulePatterns(r) \o RuleExprs(r), "Term") :
        get_annotation_for_term(n) = None

\* a constant-primitive token of the rule is not one its parser recognizes
HasUnrecognizedToken(r) ==
    \/ \E n \in RuleNames(RulePatterns(r), "ConstPrim") : PatternConstPrimVal(n) = None
    \/ \E n \in RuleNames(RuleExprs(r), "ConstPrim") : ExprConstPrimVal(n) = None

RECURSIVE FlattenNodes(_)
\* the nodes of a sequence of trees, parents before children
FlattenNodes(s) ==
    IF s = <<>> THEN <<>>
    ELSE <<Head(s)>> \o FlattenNodes(Head(s).children \o Tail(s))

\* every parse-tree node built for the rule so far
AllNodes == FlattenNodes(nodes.built)

\* the node stands for a rule variable: a reference to it or its bind pattern
IsVarNode(n) == n.construct[1] \in {"Var", "BindPattern"}
NodeVarId(n) == n.ident[2]

\* the driver is at rule i and has selected it
AtRule(i) == rule_idx = i /\ i \in DOMAIN rules /\ pc # "loop"

\* the driver is done with rule i
Left(i) == i < rule_idx

TerminalStates == {"Typed", "Rejected", "Skipped"}

(***************************************************************************)
(* Error handling of the driver.                                           *)
(***************************************************************************)
\* C1: when the solver answers unsat for the selected rule's constraints,
\* the rule ends in Rejected and the run is not aborted: the driver moves to
\* the next rule, no record is produced for the rule and the records of the
\* rules already typed are kept.
C1_UnsatRejectsRuleOnly ==
    [][(run = "running" /\ pc = "solving" /\ smt.response = "unsat")
          => /\ run' = "running"
             /\ pc' = "loop"
             /\ rule_idx' = rule_idx + 1
             /\ solutions' = solutions
             /\ Last(hist'[rule_idx]) = "Rejected"]_vars

\* an unsat answer after an earlier rule was typed: the assertion of
\* TypeSolver::solve has unwound the run
C1_UnsatAbortsRun ==
    /\ run = "aborted"
    /\ panic = "assert_response_sat"
    /\ smt.response = "unsat"
    /\ DOMAIN solutions # {}

\* C2: a selected rule one of whose terms (in an if-let, the LHS or the RHS)
\* has no annotation ends in Skipped: the solver is never invoked for it, the
\* result map never gets an entry for it, and the step that leaves the rule
\* changes no entry of the map and hands control back to the rule loop.
C2_UnannotatedRuleIsSkipped ==
    [][\A i \in DOMAIN rules :
          (Selected(rules[i]) /\ HasUnannotatedTerm(rules[i])) =>
             /\ "Solving" \notin Range(hist'[i])
             /\ ~Has(solutions', rules[i].id)
             /\ (rule_idx = i /\ rule_idx' # i) =>
                   /\ Last(hist'[i]) = "Skipped"
                   /\ solutions' = solutions
                   /\ run' = "running"
                   /\ pc' = "loop"
                   /\ rule_idx' = i + 1]_vars

\* a run that skipped its first rule for a missing annotation, typed its
\* second one and returned
C2_SkippedThenTyped ==
    /\ run = "done"
    /\ Len(rules) = 2
    /\ Selected(rules[1]) /\ HasUnannotatedTerm(rules[1])
    /\ Last(hist[1]) = "Skipped"
    /\ DOMAIN solutions = {rules[2].id}

AllowedTransitions ==
    { <<"Fresh", "Parsed">>, <<"Parsed", "Constrained">>, <<"Constrained", "Solving">>,
      <<"Solving", "Typed">>, <<"Solving", "Rejected">>, <<"Parsed", "Skipped">> }

\* C3: every selected rule moves only along Fresh -> Parsed -> Constrained ->
\* Solving -> Typed|Rejected and Parsed -> Skipped, ends in exactly one of
\* Typed, Rejected, Skipped once the driver is done with it or the run is
\* over, and never enters Solving when it is Skipped.
C3_RuleStateMachine ==
    \A i \in DOMAIN rules :
        (Selected(rules[i]) /\ hist[i] # <<>>) =>
           /\ hist[i][1] = "Fresh"
           /\ \A k \in 1..(Len(hist[i]) - 1) :
                 <<hist[i][k], hist[i][k + 1]>> \in AllowedTransitions
           /\ Cardinality({k \in DOMAIN hist[i] : hist[i][k] \in TerminalStates}) <= 1
           /\ (Left(i) \/ run # "running") => Last(hist[i]) \in TerminalStates
           /\ "Skipped" \in Range(hist[i]) => "Solving" \notin Range(hist[i])

\* a rule that entered Solving and is over without a terminal state
C3_SolvingWithoutTerminal ==
    /\ run = "aborted"
    /\ rule_idx \in DOMAIN rules
    /\ Last(hist[rule_idx]) = "Solving"

\* C4: a constant-primitive token the parser does not recognize, in a
\* pattern or in an expression, is fatal for its rule only: the run goes on
\* while the driver is at the rule, and the rule is left Rejected.
C4_UnrecognizedTokenRejectsRuleOnly ==
    \A i \in DOMAIN rules :
        (Selected(rules[i]) /\ HasUnrecognizedToken(rules[i])) =>
           /\ AtRule(i) => run = "running"
           /\ Left(i) => Last(hist[i]) = "Rejected"

\* the todo!() of the ConstPrim arm has unwound the run before its last rule
C4_TokenAbortsRun ==
    /\ run = "aborted"
    /\ panic = "todo_const_prim"
    /\ rule_idx < Len(rules)

(***************************************************************************)
(* Type variables of one rule.                                             *)
(***************************************************************************)
\* the allocations recorded in t are positive, start at 1, increase strictly
\* and stay below next_type_var
AllocationsIncrease(t) ==
    /\ t.next_type_var >= 1
    /\ t.allocated # <<>> => t.allocated[1] = 1
    /\ \A k \in DOMAIN t.allocated :
          t.allocated[k] >= 1 /\ t.allocated[k] < t.next_type_var
    /\ \A k, l \in DOMAIN t.allocated : k < l => t.allocated[k] < t.allocated[l]

\* C5: within one rule, fresh type variables are positive integers handed
\* out in strictly increasing order starting at 1; next_type_var never
\* decreases while the rule is processed and is greater than every type
\* variable handed out so far, whichever of the rule nodes, the annotation
\* operators and the isle binders allocated it.
C5_FreshTypeVarsIncrease ==
    [][/\ AllocationsIncrease(tree')
       /\ pc' # "fresh" => tree'.next_type_var >= tree.next_type_var]_vars

\* a constrained rule whose allocations came from rule nodes and annotation
\* operators, one number having been skipped on the way
C5_ManyAllocations ==
    /\ pc = "constrained"
    /\ Len(tree.allocated) >= 15
    /\ tree.next_type_var > Len(tree.allocated) + 1

\* no annotation has allocated yet: the first parse of the rule is just over
FirstParseDone ==
    /\ run = "running"
    /\ rule_idx \in DOMAIN rules
    /\ \/ pc = "iflet" /\ iflet_idx = 1
       \/ pc = "parsed" /\ rule.iflets = <<>>

\* C6: within one rule every reference to a rule variable carries the type
\* variable recorded for its id, so all references to one id carry the same
\* one; only the first reference allocates: after the parse the allocations
\* made are one per rule variable and one per node that is not a reference.
C6_OneTypeVarPerRuleVar ==
    LET ns == AllNodes
        refs == {k \in DOMAIN ns : IsVarNode(ns[k])}
        map == tree.varid_to_type_var_map
    IN /\ \A k \in refs :
             Has(map, NodeVarId(ns[k])) /\ map[NodeVarId(ns[k])] = ns[k].type_var
       /\ \A k, l \in refs :
             NodeVarId(ns[k]) = NodeVarId(ns[l]) => ns[k].type_var = ns[l].type_var
       /\ FirstParseDone =>
             Len(tree.allocated) =
                Cardinality(DOMAIN map)
                + Cardinality({k \in DOMAIN ns : ns[k].construct[1] # "Var"})

\* a rule with if-lets is parsed: one rule variable is referenced by nodes
\* of an if-let and of the LHS or RHS
C6_RepeatedReference ==
    /\ pc = "parsed"
    /\ rule.iflets # <<>>
    /\ \E k, l \in DOMAIN AllNodes :
          /\ k <= 2 * Len(rule.iflets) /\ l > k
          /\ AllNodes[k].construct[1] = "Var" /\ AllNodes[l].construct[1] = "Var"
          /\ NodeVarId(AllNodes[k]) = NodeVarId(AllNodes[l])

\* C7: no two distinct parse-tree nodes of a rule carry the same type
\* variable, unless both stand for the same rule variable (repeated
\* references, a bind pattern and its binder, references to a let-bound
\* name).
C7_NodesHaveOwnTypeVars ==
    LET ns == AllNodes
    IN \A k, l \in DOMAIN ns :
          (k # l /\ ns[k].type_var = ns[l].type_var) =>
             /\ IsVarNode(ns[k]) /\ IsVarNode(ns[l])
             /\ NodeVarId(ns[k]) = NodeVarId(ns[l])

\* a parsed rule with a bind pattern: the pattern and its binder share the
\* type variable, its subpattern has its own
C7_BindPatternAlias ==
    /\ pc = "parsed"
    /\ \E k, l \in DOMAIN AllNodes :
          /\ AllNodes[k].construct[1] = "BindPattern"
          /\ AllNodes[l].construct[1] = "Var"
          /\ AllNodes[k].type_var = AllNodes[l].type_var
          /\ AllNodes[k].children[2].type_var # AllNodes[k].type_var

\* the type variables the solver declares: those a constraint or a known
\* value mentions
Mentioned(t) == symbolic_types(Constraints(t), t.type_var_to_val_map)

\* C8: at solve time every type variable of the expression-to-tv mapping,
\* and of every quantified or free binder the emitter looks up, is mentioned
\* by a constraint or by a known value, and the emitter never misses a type
\* variable in the solver's model.
C8_NoOrphanTypeVariable ==
    /\ pc \in {"constrained", "solving", "solved", "displayed"} =>
          EmitterLookups(tree) \subseteq Mentioned(tree)
    /\ panic # "missing_type_variable"

\* the emitter has missed a type variable and unwound the run
C8_EmitterMissesTypeVar ==
    /\ run = "aborted"
    /\ panic = "missing_type_variable"
    /\ ~(EmitterLookups(tree) \subseteq DOMAIN smt.solution)

\* C9: no expression is ever registered in ty_vars under two different type
\* variables.
C9_ExprToTypeVarIsOneToOne ==
    \A a, b \in tree.registered : a[1] = b[1] => a[2] = b[2]

\* an expression that was registered under two type variables
C9_RegisteredTwice ==
    \E a, b \in tree.registered : a[1] = b[1] /\ a[2] # b[2]

(***************************************************************************)
(* Widths of a concatenation.                                              *)
(***************************************************************************)
\* the width get_type decoded: a type without a width counts as 0, the
\* value SymbolicType::decl gives the width of such a type
DecodedWidth(ty) == IF ty[1] = "BitVectorWithWidth" THEN ty[2] ELSE 0

DecodedSum(solution, vs) ==
    SumSeq([i \in DOMAIN vs |-> DecodedWidth(solution[vs[i]])])

SymbolicSums(cs) == {c \in cs : c[1] = "Symbolic"}

\* the width the other constraints fix for v, if they fix one
KnownWidths(v, cs, vals) == PinnedWidths(Component({v}, cs), cs, vals)

\* every operand and every result of the sum has a known width
HasKnownWidths(c, cs, vals) ==
    \A v \in Range(c[2]) \cup Range(c[3]) : Cardinality(KnownWidths(v, cs, vals)) = 1

KnownSum(vs, cs, vals) ==
    SumSeq([i \in DOMAIN vs |-> CHOOSE w \in KnownWidths(vs[i], cs, vals) : TRUE])

\* C10: in the assignment decoded from a constraint system the solver
\* accepted, the widths of the left variables of every Symbolic(L, R) sum to
\* the same value as those of the right ones; and when the rest of the
\* system is satisfiable, the solver answers sat exactly when, for every sum
\* whose variables all have known widths, the known widths of L and of R add
\* up to the same value.
C10_SymbolicSumsAgree ==
    /\ pc = "solved" =>
          \A c \in SymbolicSums(smt.asserted) :
              DecodedSum(smt.solution, c[2]) = DecodedSum(smt.solution, c[3])
    /\ (pc = "solving" /\ smt.response # "") =>
          LET known == {c \in SymbolicSums(smt.asserted) :
                           HasKnownWidths(c, smt.asserted, smt.values)}
          IN Models(smt.asserted \ known, smt.values) # {} =>
                (smt.response = "sat" <=>
                    \A c \in known :
                        KnownSum(c[2], smt.asserted, smt.values)
                          = KnownSum(c[3], smt.asserted, smt.values))

\* a concat of a 16 bit and a 48 bit operand was solved: the result is
\* decoded 64 bits wide
C10_Concat64Solved ==
    /\ pc = "solved"
    /\ \E c \in SymbolicSums(smt.asserted) :
          /\ HasKnownWidths(c, smt.asserted, smt.values)
          /\ Len(c[2]) + Len(c[3]) = 3
          /\ {DecodedWidth(smt.solution[v]) : v \in Range(c[2]) \cup Range(c[3])}
                = {16, 48, 64}


(***************************************************************************)
(* Widths tied to integers.                                                *)
(***************************************************************************)
WidthInts(cs) == {c \in cs : c[1] = "WidthInt"}

\* the solver answered sat: its models are the assignments it may decode
Accepted == pc = "solving" /\ smt.response = "sat"

\* C11: for every WidthInt(v, w) of a constraint system the solver accepted,
\* every model makes v a bit-vector and w an integer and gives w's integer
\* value option the width option of v (same `some`, same value); the decoded
\* assignment types v as a bit-vector and w as Int.
C11_WidthIntTiesWidthToValue ==
    /\ Accepted =>
          \A m \in Models(smt.asserted, smt.values) :
             \A c \in WidthInts(smt.asserted) :
                /\ m[c[2]].disc = DiscBitVector
                /\ m[c[3]].disc = DiscInt
                /\ integer_values(m, c[3], smt.asserted, smt.values)
                      = {<<m[c[2]].bw_some, m[c[2]].bw_val>>}
    /\ pc = "solved" =>
          \A c \in WidthInts(smt.asserted) :
             /\ smt.solution[c[2]][1] \in {"BitVector", "BitVectorWithWidth"}
             /\ smt.solution[c[3]] = TyInt

\* a system with a WidthInt was solved and its bit-vector decoded with a
\* width
C11_WidthIntSolved ==
    /\ pc = "solved"
    /\ \E c \in WidthInts(smt.asserted) : smt.solution[c[2]][1] = "BitVectorWithWidth"


(***************************************************************************)
(* Conversions to a variable width.                                        *)
(***************************************************************************)
\* the AnnotationTypeInfo records of the terms named in `names`
InfosOf(names) ==
    {annotation_infos[i] : i \in {j \in DOMAIN annotation_infos :
                                     annotation_infos[j].term[1] \in names}}

\* the decoded type of the annotation variable `name` of a term instance
DecodedVar(info, name) == smt.solution[info.var_to_type_var[name]]

\* the terms annotated `result = conversion((width-of x), y)`
VarWidthTerms == {"conv", "sext", "zext"}

\* C12: for each of the three conversions to a variable width, applied to the
\* width expression (width-of x), a WidthInt constraint is emitted on the
\* conversion (besides the one width-of puts on x) and every accepted typing
\* gives the result the bit-vector type of x, whose width is the value of the
\* width expression.
C12_VarWidthResultTiedToWidth ==
    pc = "solved" =>
       \A info \in InfosOf(VarWidthTerms) :
          /\ \E c \in WidthInts(smt.asserted) : c[2] # info.var_to_type_var["x"]
          /\ DecodedVar(info, "x")[1] = "BitVectorWithWidth"
          /\ DecodedVar(info, "result") = DecodedVar(info, "x")

\* bv-zero-ext-to-var-width of (width-of x), x 16 bits wide, was typed with
\* no WidthInt constraint but the one on x and a result that is not 16 bits
\* wide
C12_ZeroExtResultUntied ==
    /\ pc = "solved"
    /\ \E info \in InfosOf({"zext"}) :
          /\ \A c \in WidthInts(smt.asserted) : c[2] = info.var_to_type_var["x"]
          /\ DecodedVar(info, "x") = TyBitVectorWithWidth(16)
          /\ DecodedVar(info, "result") # TyBitVectorWithWidth(16)

\* the terms annotated with a conversion whose width is the literal 32: in the
\* annotation itself (conv32) or as the rule's argument (convw)
LiteralWidthTerms == {"conv32", "convw"}

\* C13: when the width argument of bv-conv-to-var-width is the literal 32,
\* written in the annotation or passed as a literal rule argument, every model
\* of an accepted system makes the conversion's result a bit-vector of known
\* width 32 and the decoded assignment types it BitVectorWithWidth(32).
C13_LiteralWidthFixesResult ==
    /\ Accepted =>
          \A m \in Models(smt.asserted, smt.values) :
             \A info \in InfosOf(LiteralWidthTerms) :
                m[info.var_to_type_var["result"]]
                   = SymbolicType(DiscBitVector, TRUE, 32)
    /\ pc = "solved" =>
          \A info \in InfosOf(LiteralWidthTerms) :
             DecodedVar(info, "result") = TyBitVectorWithWidth(32)

\* (convw 32 y) was typed: the literal's value reached the annotation's width
\* parameter and the result is 32 bits wide
C13_LiteralArgumentSolved ==
    /\ pc = "solved"
    /\ \E info \in InfosOf({"convw"}) :
          /\ Has(smt.values, info.var_to_type_var["w"])
          /\ smt.values[info.var_to_type_var["w"]] = 32
          /\ DecodedVar(info, "w") = TyInt
          /\ DecodedVar(info, "result") = TyBitVectorWithWidth(32)


(***************************************************************************)
(* Rules are processed in isolation.                                       *)
(***************************************************************************)
\* what type_annotations_using_rule has built when it reaches the solver
Prepared(ok, t, infos, lhs, rhs) ==
    [ok |-> ok, tree |-> t, infos |-> infos, lhs |-> lhs, rhs |-> rhs]

NotPrepared == Prepared(FALSE, NewRuleParseTree, <<>>, None, None)

\* one pattern/expression pair of a rule processed on its own: parsed, then
\* constrained (the if-lets with rhs = FALSE, the rule itself with TRUE)
StandalonePair(r, pat, expr, t, infos, rhs) ==
    The({
        The({
            (IF l.panic # "" \/ e.panic # "" THEN NotPrepared
             ELSE The({
                (IF cl.panic # "" \/ cl.e = None THEN NotPrepared
                 ELSE The({
                    (IF cr.panic # "" \/ cr.e = None THEN NotPrepared
                     ELSE Prepared(TRUE,
                                   InsertVar(cr.tree, Variable(l.node.type_var,
                                                               e.node.type_var)),
                                   cr.infos, cl.e, cr.e))
                    : cr \in {add_rule_constraints(cl.tree, e.node, cl.infos, rhs)} }))
                : cl \in {add_rule_constraints(e.tree, l.node, infos, FALSE)} }))
            : e \in {create_parse_tree_expr(r, expr, l.tree)} })
        : l \in {create_parse_tree_pattern(r, pat, t, config.term, types)} })

RECURSIVE StandaloneIfLets(_, _, _, _)
StandaloneIfLets(r, i, t, infos) ==
    IF i > Len(r.iflets) THEN Prepared(TRUE, t, infos, None, None)
    ELSE The({
        (IF ~p.ok THEN NotPrepared
         ELSE StandaloneIfLets(r, i + 1,
                               PushAssumption(p.tree, Eq(p.lhs[2], p.rhs[2])),
                               p.infos))
        : p \in {StandalonePair(r, r.iflets[i].lhs, r.iflets[i].rhs, t, infos,
                                FALSE)} })

\* type_annotations_using_rule on r alone, from a fresh RuleParseTree, up to
\* the call of the solver
Standalone(r) ==
    The({
        (IF ~p.ok THEN NotPrepared
         ELSE StandalonePair(r, PTerm(r.root_term, r.args), r.rhs, p.tree, p.infos,
                             TRUE))
        : p \in {StandaloneIfLets(r, 1, NewRuleParseTree, <<>>)} })

\* the RuleSemantics r can get on its own: one per model the solver may decode
StandaloneResults(r) ==
    The({
        (IF ~p.ok THEN {}
         ELSE {RuleSemantics(p.tree, p.infos, [v \in DOMAIN m |-> get_type(m[v])[2]],
                             p.lhs[2], p.rhs[2]) :
                  m \in {n \in Models(Constraints(p.tree), p.tree.type_var_to_val_map) :
                            \A v \in DOMAIN n : get_type(n[v]) # None}})
        : p \in {Standalone(r)} })

\* C14: whatever rules were processed before it and in whatever order, a rule
\* starts from a fresh inference context (next type variable 1, no
\* constraint, no binding, no annotation info, no solver state), reaches the
\* solver with exactly the context it builds when processed alone, has a
\* solver session that holds only its own constraints and values, and the
\* only change ever made to the results is the entry of the rule being
\* processed, which is one the rule gets when processed alone.
C14_RulesAreIsolated ==
    [][/\ pc' = "fresh" =>
          /\ tree'.next_type_var = 1
          /\ Constraints(tree') = {}
          /\ tree'.varid_to_type_var_map = EmptyMap
          /\ tree'.type_var_to_val_map = EmptyMap
          /\ tree'.ty_vars = EmptyMap
          /\ tree'.quantified_vars = EmptyMap /\ tree'.free_vars = EmptyMap
          /\ tree'.assumptions = <<>> /\ tree'.rhs_assertions = <<>>
          /\ annotation_infos' = <<>>
          /\ smt'.asserted = {} /\ smt'.values = EmptyMap
          /\ smt'.solution = EmptyMap
       /\ pc' = "constrained" =>
          \E p \in {Standalone(rule)} :
             /\ p.ok
             /\ tree' = p.tree
             /\ annotation_infos' = p.infos
             /\ exprs' = [lhs |-> p.lhs, rhs |-> p.rhs]
       /\ pc' \in {"solving", "solved", "displayed"} =>
          /\ tree' = tree /\ annotation_infos' = annotation_infos /\ exprs' = exprs
          /\ smt'.asserted = Constraints(tree)
          /\ smt'.values = tree.type_var_to_val_map
       /\ solutions' # solutions =>
          /\ DOMAIN solutions' = DOMAIN solutions \cup {rule.id}
          /\ \A id \in DOMAIN solutions \ {rule.id} : solutions'[id] = solutions[id]
          /\ solutions'[rule.id] \in StandaloneResults(rule)
      ]_vars

\* a rule is at the solver after another rule of the run was typed
C14_SecondRuleSolved ==
    /\ pc = "solved"
    /\ rule_idx = 2
    /\ Has(solutions, rules[1].id)
    /\ tree.next_type_var > 1


(***************************************************************************)
(* Rule selection.                                                         *)
(***************************************************************************)
\* the rule's LHS root term is the configured one and, when rule names are
\* configured, the rule has a name and the name is one of them
MatchesConfig(r) ==
    /\ r.root_term = config.term
    /\ config.names = None \/ (r.name # None /\ r.name[2] \in config.names[2])

\* the number of times inference was started on the rule at position i
TimesStarted(i) == Cardinality({k \in DOMAIN hist[i] : hist[i][k] = "Fresh"})

\* C15: inference is started on a rule only if the rule matches the
\* configuration, and on every matching rule the loop has gone past; no rule
\* is started twice; a rule that does not match never gets a result entry;
\* and when the run is over every matching rule has been processed exactly
\* once.
C15_SelectedRulesProcessedOnce ==
    \A i \in DOMAIN rules :
       /\ hist[i] # <<>> => MatchesConfig(rules[i])
       /\ (MatchesConfig(rules[i]) /\ i < rule_idx) => hist[i] # <<>>
       /\ TimesStarted(i) <= 1
       /\ ~MatchesConfig(rules[i]) => ~Has(solutions, rules[i].id)
       /\ (run # "running" /\ MatchesConfig(rules[i])) => TimesStarted(i) = 1

\* the run is over and a rule that matches the configuration was never
\* processed: an earlier rule's panic has ended the run
C15_SelectedRuleNeverProcessed ==
    /\ run = "aborted"
    /\ \E i \in DOMAIN rules :
          /\ i > rule_idx
          /\ MatchesConfig(rules[i])
          /\ hist[i] = <<>>


(***************************************************************************)
(* Decoded widths.                                                         *)
(***************************************************************************)
\* C16: no model of an accepted system gives a type variable a known
\* bit-vector width below 1, and every type decoded as BitVectorWithWidth(w)
\* has w >= 1.
C16_DecodedWidthsArePositive ==
    /\ Accepted =>
          \A m \in Models(smt.asserted, smt.values) :
             \A v \in DOMAIN m : m[v].bw_some => m[v].bw_val >= 1
    /\ pc = "solved" =>
          \A v \in DOMAIN smt.solution :
             smt.solution[v][1] = "BitVectorWithWidth" => smt.solution[v][2] >= 1

\* a type variable that only bit-vector and Variable constraints mention was
\* decoded as a bit-vector of known width 0
C16_ZeroWidthDecoded ==
    /\ pc = "solved"
    /\ \E v \in DOMAIN smt.solution : smt.solution[v] = TyBitVectorWithWidth(0)


(***************************************************************************)
(* bv-subs.                                                                *)
(***************************************************************************)
\* C17: for a term annotated result = bv-subs(ty, x, y), every model of an
\* accepted system makes the result a bit-vector of known width
\* REG_WIDTH + FLAGS_WIDTH = 68, ty an integer and x and y bit-vectors with
\* the same width option; the decoded assignment types the result
\* BitVectorWithWidth(68), ty Int and x and y with one bit-vector type.
C17_SubsTyping ==
    /\ Accepted =>
          \A m \in Models(smt.asserted, smt.values) :
             \A info \in InfosOf({"subs"}) :
                /\ m[info.var_to_type_var["result"]]
                      = SymbolicType(DiscBitVector, TRUE, 68)
                /\ m[info.var_to_type_var["ty"]].disc = DiscInt
                /\ m[info.var_to_type_var["x"]].disc = DiscBitVector
                /\ m[info.var_to_type_var["x"]] = m[info.var_to_type_var["y"]]
    /\ pc = "solved" =>
          \A info \in InfosOf({"subs"}) :
             /\ DecodedVar(info, "result") = TyBitVectorWithWidth(68)
             /\ DecodedVar(info, "ty") = TyInt
             /\ DecodedVar(info, "x")[1] \in {"BitVector", "BitVectorWithWidth"}
             /\ DecodedVar(info, "x") = DecodedVar(info, "y")

\* (subs ty x y) was typed with operands of a known width
C17_SubsSolved ==
    /\ pc = "solved"
    /\ \E info \in InfosOf({"subs"}) :
          /\ DecodedVar(info, "result") = TyBitVectorWithWidth(REG_WIDTH + FLAGS_WIDTH)
          /\ DecodedVar(info, "x")[1] = "BitVectorWithWidth"
          /\ DecodedVar(info, "x")[2] > 0


(***************************************************************************)
(* Type parameters.                                                        *)
(***************************************************************************)
\* the Concrete(v, Poly(k)) constraints of the rule being processed
PolyConstraints ==
    {c \in Constraints(tree) : c[1] = "Concrete" /\ c[3][1] = "Poly"}

\* C18: a constraint system that holds a Concrete(v, Poly(k)) is still handed
\* to the solver (asserting it does not end the run) and, once solved, v is
\* decoded as a bit-vector.
C18_PolyIsUnknownWidthBitVector ==
    \A c \in PolyConstraints :
       /\ panic # "todo_concrete"
       /\ pc \in {"solving", "solved", "displayed"} => c \in smt.asserted
       /\ pc \in {"solved", "displayed"} =>
             smt.solution[c[2]][1] \in {"BitVector", "BitVectorWithWidth"}

\* the solver was handed Concrete(v, Poly(k)): the todo!() of
\* TypeSolver::concrete has unwound the run before any check
C18_PolyAbortsRun ==
    /\ run = "aborted"
    /\ panic = "todo_concrete"
    /\ pc = "constrained"
    /\ PolyConstraints # {}
    /\ smt.response = ""


(***************************************************************************)
(* The signature of the root term.                                         *)
(***************************************************************************)
\* the rule's root pattern has been parsed
RootParsed ==
    /\ rule_idx \in DOMAIN rules
    /\ pc \in {"parsed", "lhs_done", "constrained", "solving", "solved", "displayed"}

\* the constraints the instantiated signature puts on a term node
SignatureConstraints(n) ==
    {Concrete(n.type_var, annotation_type_for_vir_type(types.ret))}
    \cup {Concrete(n.children[i].type_var, annotation_type_for_vir_type(types.args[i])) :
             i \in DOMAIN n.children \cap DOMAIN types.args}

\* the concrete constraints on the type variables of the parse-tree nodes:
\* the parse emits none but the signature's
NodeConstraints ==
    {c \in tree.concrete_constraints :
        c[1] = "Concrete" /\ c[2] \in {AllNodes[k].type_var : k \in DOMAIN AllNodes}}

\* C19: once the root pattern is parsed, the concrete constraints on the
\* parse-tree nodes are exactly the signature constraints of the LHS root
\* node: its return type on the node, its argument types on the node's
\* positional children, and nothing on any other node.
C19_SignatureOnlyOnRoot ==
    RootParsed => NodeConstraints = SignatureConstraints(nodes.lhs)

\* a term of the configured name nested in the LHS was parsed: its child is
\* no child of the root and carries a signature constraint all the same
C19_NestedTermConstrained ==
    /\ RootParsed
    /\ \E k \in DOMAIN AllNodes :
          /\ AllNodes[k].construct = <<"Term", config.term>>
          /\ AllNodes[k] # nodes.lhs
          /\ \E i \in DOMAIN AllNodes[k].children :
                /\ AllNodes[k].children[i].type_var
                      \notin {nodes.lhs.children[j].type_var :
                                 j \in DOMAIN nodes.lhs.children}
                /\ \E c \in tree.concrete_constraints :
                      c[2] = AllNodes[k].children[i].type_var


(***************************************************************************)
(* Bind patterns.                                                          *)
(***************************************************************************)
\* the BindPattern nodes of the parse tree; children: the binder's Var node,
\* then the subpattern
BindNodes ==
    {AllNodes[k] : k \in {j \in DOMAIN AllNodes :
                             AllNodes[j].construct[1] = "BindPattern"}}

\* the type variables that were allocated but that no parse-tree node carries
Unattached ==
    Range(tree.allocated) \ {AllNodes[k].type_var : k \in DOMAIN AllNodes}

\* the variables b with Variable(b, x) and Variable(b, p)
BindTypeVars(n) ==
    {b \in Unattached :
        /\ Variable(b, n.children[1].type_var) \in tree.var_constraints
        /\ Variable(b, n.children[2].type_var) \in tree.var_constraints}

\* C20 as stated: for a bind pattern x @ p the constraints Variable(x, p),
\* Variable(bind, x) and Variable(bind, p) are emitted, bind being the type
\* variable the bind node carries.
C20_BindNodeVariableTied ==
    RootParsed =>
       \A n \in BindNodes :
          /\ Variable(n.children[1].type_var, n.children[2].type_var)
                \in tree.var_constraints
          /\ Variable(n.type_var, n.children[1].type_var) \in tree.var_constraints
          /\ Variable(n.type_var, n.children[2].type_var) \in tree.var_constraints

\* C20, amended: the bind node carries the binder's type variable; the
\* constraints are Variable(x, p), Variable(b, x) and Variable(b, p) for one
\* more variable b, allocated for the bind pattern and carried by no node;
\* every model of an accepted system gives x, p and b the same symbolic type
\* and the decoded assignment gives x, p, the bind node and b the same type.
C20_BindPatternTied ==
    /\ RootParsed =>
          \A n \in BindNodes :
             /\ n.type_var = n.children[1].type_var
             /\ Variable(n.children[1].type_var, n.children[2].type_var)
                   \in tree.var_constraints
             /\ Cardinality(BindTypeVars(n)) = 1
    /\ Accepted =>
          \A m \in Models(smt.asserted, smt.values) :
             \A n \in BindNodes :
                \A b \in BindTypeVars(n) :
                   /\ m[n.children[1].type_var] = m[n.children[2].type_var]
                   /\ m[b] = m[n.children[1].type_var]
    /\ pc = "solved" =>
          \A n \in BindNodes :
             \A b \in BindTypeVars(n) :
                /\ smt.solution[n.children[1].type_var]
                      = smt.solution[n.children[2].type_var]
                /\ smt.solution[n.type_var] = smt.solution[n.children[2].type_var]
                /\ smt.solution[b] = smt.solution[n.children[2].type_var]

\* a rule with a bind pattern was typed: binder and subpattern are both
\* decoded as bit-vectors of one known width
C20_BindPatternSolved ==
    /\ pc = "solved"
    /\ \E n \in BindNodes :
          /\ n.children[1].type_var # n.children[2].type_var
          /\ smt.solution[n.children[1].type_var][1] = "BitVectorWithWidth"
          /\ smt.solution[n.children[2].type_var]
                = smt.solution[n.children[1].type_var]


(***************************************************************************)
(* Let expressions.                                                        *)
(***************************************************************************)
\* the Let nodes of the parse tree; children: the binding expressions in
\* order, then the body; construct[2]: the bound idents <<name, varid, xtv>>
LetNodes ==
    {AllNodes[k] : k \in {j \in DOMAIN AllNodes : AllNodes[j].construct[1] = "Let"}}

\* the references to rule variable varid below the children from..Len of n
RefsFrom(n, from, varid) ==
    {m \in Range(FlattenNodes(SubSeq(n.children, from, Len(n.children)))) :
        m.construct = <<"Var">> /\ NodeVarId(m) = varid}

\* C21: for a let expression, each bound name x has a type variable xtv that
\* was allocated once and that no node but the references to x carries,
\* Variable(xtv, e.tv) is emitted for its binding expression e, every
\* reference to x in the later bindings and in the body carries xtv, and
\* Variable(let.tv, body.tv) is emitted; every model of an accepted system
\* and the decoded assignment give x the type of e and the let the type of
\* its body.
C21_LetBindsFreshVariables ==
    /\ RootParsed =>
          \A n \in LetNodes :
             /\ Len(n.children) = Len(n.construct[2]) + 1
             /\ Variable(n.type_var, Last(n.children).type_var) \in tree.var_constraints
             /\ \A i \in DOMAIN n.construct[2] :
                   /\ Cardinality({k \in DOMAIN tree.allocated :
                                      tree.allocated[k] = n.construct[2][i][3]}) = 1
                   /\ \A k \in DOMAIN AllNodes :
                         AllNodes[k].type_var = n.construct[2][i][3] =>
                            /\ AllNodes[k].construct = <<"Var">>
                            /\ NodeVarId(AllNodes[k]) = n.construct[2][i][2]
                   /\ Variable(n.construct[2][i][3], n.children[i].type_var)
                         \in tree.var_constraints
                   /\ \A m \in RefsFrom(n, i + 1, n.construct[2][i][2]) :
                         m.type_var = n.construct[2][i][3]
    /\ Accepted =>
          \A m \in Models(smt.asserted, smt.values) :
             \A n \in LetNodes :
                /\ m[n.type_var] = m[Last(n.children).type_var]
                /\ \A i \in DOMAIN n.construct[2] :
                      m[n.construct[2][i][3]] = m[n.children[i].type_var]
    /\ pc = "solved" =>
          \A n \in LetNodes :
             /\ smt.solution[n.type_var] = smt.solution[Last(n.children).type_var]
             /\ \A i \in DOMAIN n.construct[2] :
                   smt.solution[n.construct[2][i][3]]
                      = smt.solution[n.children[i].type_var]

\* a let with two bindings was typed: the second binding refers to the
\* first bound name and the body to the second
C21_LetTwoSolved ==
    /\ pc = "solved"
    /\ \E n \in LetNodes :
          /\ Len(n.construct[2]) = 2
          /\ RefsFrom(n, 2, n.construct[2][1][2]) # {}
          /\ RefsFrom(n, 3, n.construct[2][2][2]) # {}
          /\ smt.solution[n.type_var][1] = "BitVectorWithWidth"

(***************************************************************************)
(* Constant primitives.                                                    *)
(***************************************************************************)
\* the constant-primitive tokens and the value each one stands for
ConstPrimTokens == {"I8", "I16", "I32", "I64", "I128", "true", "false"}
ConstPrimValue(name) ==
    CASE name = "I8" -> 8
      [] name = "I16" -> 16
      [] name = "I32" -> 32
      [] name = "I64" -> 64
      [] name = "I128" -> 16
      [] name = "true" -> 1
      [] name = "false" -> 0

\* the nodes built from a constant-primitive token
ConstPrimNodes ==
    {n \in Range(AllNodes) : n.construct[1] = "Const" /\ n.ident[1] \in ConstPrimTokens}

\* C22: a rule whose constant-primitive tokens are all among I8, I16, I32,
\* I64, I128, true and false, in its patterns or in its expressions, is
\* never given up for such a token; once the rule is constrained the value
\* map holds 8, 16, 32, 64, 16, 1, 0 for the token's node, and no Concrete
\* constraint is on the node's own type variable.
C22_ConstPrimValueRecorded ==
    rule_idx \in DOMAIN rules =>
       /\ RuleNames(RulePatterns(rules[rule_idx]) \o RuleExprs(rules[rule_idx]),
                    "ConstPrim") \subseteq ConstPrimTokens
             => panic # "todo_const_prim"
       /\ pc \in {"constrained", "solving", "solved", "displayed"} =>
             \A n \in ConstPrimNodes :
                /\ Has(tree.type_var_to_val_map, n.type_var)
                /\ tree.type_var_to_val_map[n.type_var] = ConstPrimValue(n.ident[1])
                /\ \A c \in tree.concrete_constraints : c[2] # n.type_var

\* the token I16 in the expression of a rule, all of whose tokens are
\* among the seven, ended the run
C22_I16ExprAbortsRun ==
    /\ run = "aborted"
    /\ panic = "todo_const_prim"
    /\ rule_idx \in DOMAIN rules
    /\ "I16" \in RuleNames(RuleExprs(rules[rule_idx]), "ConstPrim")
    /\ RuleNames(RulePatterns(rules[rule_idx]) \o RuleExprs(rules[rule_idx]),
                 "ConstPrim") \subseteq ConstPrimTokens

\* a pattern token's value was recorded and its rule typed
C22_PatternTokenRecorded ==
    /\ pc = "solved"
    /\ \E n \in ConstPrimNodes :
          /\ Has(tree.type_var_to_val_map, n.type_var)
          /\ tree.type_var_to_val_map[n.type_var] = ConstPrimValue(n.ident[1])

(***************************************************************************)
(* Signature names of an annotation.                                       *)
(***************************************************************************)
\* the signature names of a term's annotation, arguments then return, and
\* the isle types they are paired with
SigNames(name) ==
    [i \in DOMAIN annotation_map[name].sig.args |->
        annotation_map[name].sig.args[i].name]
    \o <<annotation_map[name].sig.ret.name>>
SigIsleTypes(name) == Append(termenv_terms[name].arg_tys, termenv_terms[name].ret_ty)

\* every term of the rule has an annotation
AllAnnotated(r) == ~HasUnannotatedTerm(r)

\* C23: for every use of an annotated term, an annotation with no
\* assumption and no assertion included, each of the arity+1 signature names
\* has an annotation-local type variable when the children and the result
\* are tied, so tying never finds a name without one; each name whose isle
\* type has a model carries Concrete(tv, model), in bv_constraints for the
\* BitVector model and in concrete_constraints otherwise.
C23_SignatureNamesBound ==
    /\ panic # "no_annotation_type_var"
    /\ \A k \in DOMAIN annotation_infos :
          \A i \in DOMAIN SigNames(annotation_infos[k].term[1]) :
             /\ Has(annotation_infos[k].var_to_type_var,
                    SigNames(annotation_infos[k].term[1])[i])
             /\ Has(model_map, SigIsleTypes(annotation_infos[k].term[1])[i]) =>
                   Concrete(annotation_infos[k].var_to_type_var[
                                SigNames(annotation_infos[k].term[1])[i]],
                            model_map[SigIsleTypes(annotation_infos[k].term[1])[i]])
                      \in (IF model_map[SigIsleTypes(annotation_infos[k].term[1])[i]]
                                = TyBitVector
                           THEN tree.bv_constraints
                           ELSE tree.concrete_constraints)

\* a use of a term whose annotation has no assumption and no assertion
\* ended the run: its signature names have no type variable to tie to
C23_EmptyAnnotationAbortsRun ==
    /\ run = "aborted"
    /\ panic = "no_annotation_type_var"
    /\ rule_idx \in DOMAIN rules
    /\ AllAnnotated(rules[rule_idx])
    /\ \E n \in RuleNames(RulePatterns(rules[rule_idx]), "Term") :
          /\ annotation_map[n].assumptions = <<>>
          /\ annotation_map[n].assertions = <<>>

(***************************************************************************)
(* Where the annotation expressions of a term use go.                      *)
(***************************************************************************)
IsPrefix(s, t) == Len(s) <= Len(t) /\ SubSeq(t, 1, Len(s)) = s

\* an entry of assumptions or rhs_assertions that is a typed annotation
\* expression: its left operand is an annotation variable "term__name__tv";
\* the other entries equate a node with an annotation variable, a bound
\* name with its expression, or two patterns
IsAnnotationEntry(e) == e[3][1] = "Var" /\ Len(e[3][2]) = 4
EntryTerm(e) == <<e[3][2][1], e[3][2][2]>>

RECURSIVE Owners(_, _)
\* the term uses the annotation entries of a list among `uses` belong to,
\* in the order of the list
Owners(list, uses) ==
    IF list = <<>> THEN <<>>
    ELSE (IF IsAnnotationEntry(Head(list)) /\ EntryTerm(Head(list)) \in uses
          THEN <<EntryTerm(Head(list))>> ELSE <<>>) \o Owners(Tail(list), uses)

RECURSIVE Times(_, _)
Times(x, k) == IF k = 0 THEN <<>> ELSE <<x>> \o Times(x, k - 1)

RECURSIVE WalkOrder(_, _, _)
\* the term uses below the nodes ns in the order of the depth-first walk,
\* children before their parent, each one repeated once for every
\* assumption (if asm) and every assertion (if ast) of its annotation
WalkOrder(ns, asm, ast) ==
    IF ns = <<>> THEN <<>>
    ELSE WalkOrder(Head(ns).children, asm, ast)
         \o (IF Head(ns).construct[1] = "Term"
                /\ Has(annotation_map, Head(ns).construct[2])
             THEN Times(Head(ns).ident,
                        (IF asm THEN Len(annotation_map[Head(ns).construct[2]].assumptions)
                         ELSE 0)
                        + (IF ast THEN Len(annotation_map[Head(ns).construct[2]].assertions)
                           ELSE 0))
             ELSE <<>>)
         \o WalkOrder(Tail(ns), asm, ast)

TermUses(n) == Range(WalkOrder(<<n>>, TRUE, TRUE))

\* the lists of a rule whose two sides are constrained
ListsAsWalked ==
    /\ \A k \in DOMAIN tree.rhs_assertions : IsAnnotationEntry(tree.rhs_assertions[k])
    /\ Owners(tree.rhs_assertions, TermUses(nodes.lhs) \cup TermUses(nodes.rhs))
          = WalkOrder(<<nodes.rhs>>, FALSE, TRUE)
    /\ Len(tree.rhs_assertions) = Len(WalkOrder(<<nodes.rhs>>, FALSE, TRUE))
    /\ Owners(tree.assumptions, TermUses(nodes.lhs)) = WalkOrder(<<nodes.lhs>>, TRUE, TRUE)
    /\ Owners(tree.assumptions, TermUses(nodes.rhs)) = WalkOrder(<<nodes.rhs>>, TRUE, FALSE)

\* C24: once both sides of a rule are constrained, rhs_assertions holds
\* exactly the annotation assertions of the terms of the RHS, and
\* assumptions holds the annotation assumptions of all terms and the
\* assertions of the terms of the LHS, each list in the order of the
\* depth-first walk; while a rule is being typed both lists only grow at
\* their end, and rhs_assertions only during the walk of the RHS.
C24_AssertionsSplitBySide ==
    [][/\ pc' = "constrained" => ListsAsWalked'
       /\ pc' # "fresh" =>
             /\ IsPrefix(tree.assumptions, tree'.assumptions)
             /\ IsPrefix(tree.rhs_assertions, tree'.rhs_assertions)
             /\ tree'.rhs_assertions # tree.rhs_assertions => pc = "lhs_done"]_vars

\* a rule with annotated terms on both sides, one of them with an
\* assumption, is constrained: both lists are filled
C24_BothListsFilled ==
    /\ pc = "constrained"
    /\ tree.rhs_assertions # <<>>
    /\ Len(WalkOrder(<<nodes.lhs>>, TRUE, FALSE)) > 0
    /\ Len(WalkOrder(<<nodes.lhs>>, FALSE, TRUE)) > 1

(***************************************************************************)
(* Known values and Variable.                                              *)
(***************************************************************************)
\* v is constrained to one of the types `kinds` by a Concrete constraint
TypedAs(v, kinds) ==
    \E c \in smt.asserted : c[1] = "Concrete" /\ c[2] = v /\ c[3][1] \in kinds

\* the variables with a known value that are constrained to be a bit-vector
\* or a boolean
KnownNonInts ==
    {v \in DOMAIN smt.values : TypedAs(v, {"BitVector", "BitVectorWithWidth", "Bool"})}

\* the integer variables with a known value that a Variable constraint
\* relates to an integer variable with another known value, and whose value
\* is no bit-vector's width
AliasedInts ==
    {v \in DOMAIN smt.values :
        /\ TypedAs(v, {"Int"})
        /\ \A c \in smt.asserted : c[1] = "WidthInt" => c[3] # v
        /\ \E u \in DOMAIN smt.values :
              /\ TypedAs(u, {"Int"})
              /\ smt.values[u] # smt.values[v]
              /\ (Variable(u, v) \in smt.asserted \/ Variable(v, u) \in smt.asserted)}

Drop(f, K) == [k \in DOMAIN f \ K |-> f[k]]

\* C25: Variable(u, v) equates the discriminant and the width option of u
\* and v and never their integer values: two Int variables that a Variable
\* relates keep their different known values in every model, a variable
\* constrained to be a bit-vector or a boolean is never an Int and has no
\* integer value whatever value is known for it, and the system has the
\* models it would have without these known values.
C25_VariableLeavesValuesAlone ==
    pc = "solving" =>
       /\ Models(smt.asserted, smt.values)
             = Models(smt.asserted, Drop(smt.values, KnownNonInts \cup AliasedInts))
       /\ \A m \in Models(smt.asserted, smt.values) :
             /\ \A c \in smt.asserted :
                   c[1] = "Variable" => variable(m[c[2]], m[c[3]])
             /\ \A v \in KnownNonInts :
                   /\ m[v].disc # DiscInt
                   /\ integer_values(m, v, smt.asserted, smt.values) = {<<FALSE, 0>>}
             /\ \A v \in AliasedInts :
                   /\ m[v].disc = DiscInt
                   /\ integer_values(m, v, smt.asserted, smt.values)
                         = {<<TRUE, smt.values[v]>>}

\* an accepted system with two related Int variables of different known
\* values, a boolean with a known value and a bit-vector with a known value
C25_DifferentValuesAccepted ==
    /\ Accepted
    /\ AliasedInts # {}
    /\ \E v \in KnownNonInts : TypedAs(v, {"Bool"})
    /\ \E v \in KnownNonInts : TypedAs(v, {"BitVector"})

(***************************************************************************)
(* The shape of a model and its decoding.                                  *)
(***************************************************************************)
\* the type a symbolic type stands for
DecodedAs(o) ==
    CASE o.disc = DiscBitVector /\ o.bw_some -> TyBitVectorWithWidth(o.bw_val)
      [] o.disc = DiscBitVector /\ ~o.bw_some -> TyBitVector
      [] o.disc = DiscInt -> TyInt
      [] o.disc = DiscBool -> TyBool

\* the invariants of a declared symbolic type
WellFormed(m, v) ==
    /\ m[v].disc \in {DiscBitVector, DiscInt, DiscBool}
    /\ m[v].disc # DiscBitVector => ~m[v].bw_some
    /\ ~m[v].bw_some => m[v].bw_val = 0
    /\ m[v].disc # DiscInt =>
          integer_values(m, v, smt.asserted, smt.values) = {<<FALSE, 0>>}
    /\ \A iv \in integer_values(m, v, smt.asserted, smt.values) :
          ~iv[1] => iv[2] = 0

\* C26: in every model of the asserted system each declared type variable
\* has a discriminant among 1, 2, 3, no width unless it is a bit-vector
\* (bw_some false, bw_val 0) and no integer value unless it is an integer;
\* the decoder returns, for every model, BitVectorWithWidth(bw_val) when
\* disc = 1 and bw_some, BitVector when disc = 1 and not bw_some, Int when
\* disc = 2 and Bool when disc = 3, and the decoded assignment holds no
\* other type.
C26_ModelsDecodeToFourTypes ==
    /\ pc = "solving" =>
          \A m \in Models(smt.asserted, smt.values) :
             /\ DOMAIN m = smt.symbolic_types
             /\ \A v \in DOMAIN m :
                   /\ WellFormed(m, v)
                   /\ get_type(m[v]) = Some(DecodedAs(m[v]))
    /\ panic # "bitvector_width_not_usize"
    /\ pc = "solved" =>
          \A v \in DOMAIN smt.solution :
             smt.solution[v][1] \in {"BitVector", "BitVectorWithWidth", "Int", "Bool"}

\* the solver's model gave a bit-vector a known negative width and decoding
\* it ended the run
C26_NegativeWidthNotDecoded ==
    /\ run = "aborted"
    /\ panic = "bitvector_width_not_usize"
    /\ \E m \in Models(smt.asserted, smt.values) :
          \E v \in DOMAIN m :
             /\ WellFormed(m, v)
             /\ m[v].disc = DiscBitVector /\ m[v].bw_some /\ m[v].bw_val < 0
             /\ get_type(m[v]) = None

(***************************************************************************)
(* If-lets.                                                                *)
(***************************************************************************)
\* a rule is being typed
InRule == rule_idx \in DOMAIN rules /\ pc # "loop"

\* the if-lets whose two sides are parsed and constrained, as pairs of parse
\* trees: <<iflet_lhs, iflet_rhs>>
IfLetPairs ==
    {<<nodes.built[2 * k - 1], nodes.built[2 * k]>> : k \in 1..(iflet_idx - 1)}

\* the references to rule variables in the parse trees built so far
VarRefs == {n \in Range(AllNodes) : n.construct = <<"Var">>}

\* C27: the if-lets of a rule are parsed and constrained before its LHS and
\* RHS, in the same inference context: a rule variable has one type variable
\* across the if-lets and the two sides; each if-let adds
\* Variable(iflet_lhs.tv, iflet_rhs.tv) and the assumption
\* iflet_lhs = iflet_rhs, and its two sides have the same type in every model
\* of an accepted system and in the decoded assignment.
C27_IfLetSidesTied ==
    InRule =>
       /\ iflet_idx - 1 <= Len(rules[rule_idx].iflets)
       /\ 2 * (iflet_idx - 1) <= Len(nodes.built)
       /\ nodes.lhs # NoNode =>
             /\ iflet_idx - 1 = Len(rules[rule_idx].iflets)
             /\ nodes.built = SubSeq(nodes.built, 1, 2 * (iflet_idx - 1))
                                 \o <<nodes.lhs, nodes.rhs>>
       /\ \A a, b \in VarRefs : NodeVarId(a) = NodeVarId(b) => a.type_var = b.type_var
       /\ \A p \in IfLetPairs :
             /\ Variable(p[1].type_var, p[2].type_var) \in tree.var_constraints
             /\ \E k \in DOMAIN tree.assumptions :
                   tree.assumptions[k]
                      = Eq(TerminalVar(p[1].ident), TerminalVar(p[2].ident))
             /\ Accepted =>
                   \A m \in Models(smt.asserted, smt.values) :
                      m[p[1].type_var] = m[p[2].type_var]
             /\ pc = "solved" =>
                   smt.solution[p[1].type_var] = smt.solution[p[2].type_var]

\* a rule with two if-lets was typed; a rule variable occurs in an if-let
\* and on the LHS, and the second if-let refers to the name the first binds
C27_TwoIfLetsSolved ==
    /\ InRule
    /\ pc = "solved"
    /\ Cardinality(IfLetPairs) = 2
    /\ \E a \in Range(FlattenNodes(<<nodes.built[2]>>)) :
       \E b \in Range(FlattenNodes(<<nodes.lhs>>)) :
          a \in VarRefs /\ b \in VarRefs /\ NodeVarId(a) = NodeVarId(b)
    /\ \E a \in Range(FlattenNodes(<<nodes.built[4]>>)) :
          a \in VarRefs /\ NodeVarId(a) = NodeVarId(nodes.built[1])
    /\ smt.solution[nodes.built[1].type_var][1] \in {"BitVector", "BitVectorWithWidth"}

(***************************************************************************)
(* Pattern conjunctions.                                                   *)
(***************************************************************************)
\* the And nodes of the parse trees that are an argument of a term
AndArguments ==
    {n \in Range(AllNodes) :
        /\ n.construct[1] = "And"
        /\ \E t \in Range(AllNodes) :
              t.construct[1] = "Term" /\ n \in Range(t.children)}

\* C28: for a conjunction and(p1, ..., pn) that is an argument of a term,
\* every model of an accepted system and the decoded assignment give every
\* subpattern the type of the And node, the one the enclosing term's
\* annotation imposes on the argument.
C28_AndTypedAsSubpatterns ==
    /\ Accepted =>
          \A m \in Models(smt.asserted, smt.values) :
             \A n \in AndArguments :
                \A i \in DOMAIN n.children :
                   /\ n.children[i].type_var \in DOMAIN m
                   /\ m[n.children[i].type_var] = m[n.type_var]
    /\ pc = "solved" =>
          \A n \in AndArguments :
             \A i \in DOMAIN n.children :
                /\ n.children[i].type_var \in DOMAIN smt.solution
                /\ smt.solution[n.children[i].type_var] = smt.solution[n.type_var]

\* a conjunction of two subpatterns was typed with the And node an integer
\* and its two subpatterns, equal to each other, of another type
C28_AndTypedApart ==
    /\ pc = "solved"
    /\ \E n \in AndArguments :
          /\ Len(n.children) = 2
          /\ Variable(n.children[1].type_var, n.children[2].type_var)
                \in smt.asserted
          /\ smt.solution[n.children[1].type_var] = smt.solution[n.children[2].type_var]
          /\ smt.solution[n.type_var] = TyInt
          /\ smt.solution[n.children[1].type_var] # TyInt

(***************************************************************************)
(* The scope of annotation variables.                                      *)
(***************************************************************************)
\* the annotation variables "term__name__tv" among the quantified variables
AnnotationVarNames == {q \in DOMAIN tree.quantified_vars : Len(q) = 4}

\* the node of the term use an AnnotationTypeInfo belongs to
UseNodes(info) == {n \in Range(AllNodes) : n.ident = info.term}

\* C29: within one use of a term an annotation variable name has a single
\* type variable: every name "term__name__tv" of the use carries the type
\* variable the use's AnnotationTypeInfo gives the name, and the ties of the
\* arguments and of the result are on these type variables; two term uses of
\* a rule, of the same term or not, share no annotation type variable.
C29_AnnotationVarsScopedPerUse ==
    InRule =>
       /\ \A q \in AnnotationVarNames :
             /\ tree.quantified_vars[q] = q[4]
             /\ \A k \in DOMAIN annotation_infos :
                   annotation_infos[k].term = <<q[1], q[2]>> =>
                      /\ Has(annotation_infos[k].var_to_type_var, q[3])
                      /\ annotation_infos[k].var_to_type_var[q[3]] = q[4]
       /\ \A k \in DOMAIN annotation_infos :
             /\ \A x, y \in DOMAIN annotation_infos[k].var_to_type_var :
                   x # y => annotation_infos[k].var_to_type_var[x]
                               # annotation_infos[k].var_to_type_var[y]
             /\ \A n \in UseNodes(annotation_infos[k]) :
                   /\ Variable(n.type_var,
                               annotation_infos[k].var_to_type_var[
                                  Last(SigNames(n.construct[2]))])
                         \in tree.var_constraints
                   /\ \A i \in DOMAIN n.children :
                         Variable(n.children[i].type_var,
                                  annotation_infos[k].var_to_type_var[
                                     SigNames(n.construct[2])[i]])
                            \in tree.var_constraints
       /\ \A k1, k2 \in DOMAIN annotation_infos :
             k1 # k2 =>
                /\ annotation_infos[k1].term # annotation_infos[k2].term
                /\ Range(annotation_infos[k1].var_to_type_var)
                      \cap Range(annotation_infos[k2].var_to_type_var) = {}

\* a rule that uses one term twice was typed; a name of the term's
\* signature has two type variables, one for each use
C29_SameTermUsedTwice ==
    /\ InRule
    /\ pc = "solved"
    /\ \E k1, k2 \in DOMAIN annotation_infos :
          /\ k1 # k2
          /\ annotation_infos[k1].term[1] = annotation_infos[k2].term[1]
          /\ \A x \in DOMAIN annotation_infos[k1].var_to_type_var :
                /\ Has(annotation_infos[k2].var_to_type_var, x)
                /\ annotation_infos[k1].var_to_type_var[x]
                      # annotation_infos[k2].var_to_type_var[x]

(***************************************************************************)
(* The roots of the two sides.                                             *)
(***************************************************************************)
RootsTied == Variable(nodes.lhs.type_var, nodes.rhs.type_var)

\* the rule before rule_idx has just ended Typed
JustTyped ==
    /\ pc = "loop"
    /\ rule_idx - 1 \in DOMAIN rules
    /\ hist[rule_idx - 1] # <<>>
    /\ Last(hist[rule_idx - 1]) = "Typed"

\* C30: Variable(lhs_root.tv, rhs_root.tv) is not in the constraints of a
\* rule while its sides are being constrained, it is there from the moment
\* both are constrained, it is among the constraints asserted to the solver,
\* and every model, the decoded assignment and the typing recorded for a
\* rule that ends Typed give the two roots the same type.
C30_RootsHaveOneType ==
    /\ (InRule /\ pc \in {"parsed", "lhs_done"}) => RootsTied \notin tree.var_constraints
    /\ (InRule /\ pc \in {"constrained", "solving", "solved", "displayed"}) =>
          RootsTied \in tree.var_constraints
    /\ (InRule /\ pc \in {"solving", "solved", "displayed"}) =>
          RootsTied \in smt.asserted
    /\ (InRule /\ Accepted) =>
          \A m \in Models(smt.asserted, smt.values) :
             m[nodes.lhs.type_var] = m[nodes.rhs.type_var]
    /\ (InRule /\ pc \in {"solved", "displayed"}) =>
          smt.solution[nodes.lhs.type_var] = smt.solution[nodes.rhs.type_var]
    /\ JustTyped =>
          /\ Has(solutions, rules[rule_idx - 1].id)
          /\ RootsTied \in tree.var_constraints
          /\ solutions[rules[rule_idx - 1].id].type_var_to_type[nodes.lhs.type_var]
                = solutions[rules[rule_idx - 1].id].type_var_to_type[nodes.rhs.type_var]

\* a rule ended Typed with its two roots bit-vectors of a known width
C30_TypedRuleRootsEqual ==
    /\ JustTyped
    /\ nodes.lhs.type_var # nodes.rhs.type_var
    /\ solutions[rules[rule_idx - 1].id].type_var_to_type[nodes.lhs.type_var][1]
          = "BitVectorWithWidth"
    /\ solutions[rules[rule_idx - 1].id].type_var_to_type[nodes.rhs.type_var][1]
          = "BitVectorWithWidth"

====
